---- MODULE Spec2Model ----
(***************************************************************************)
(* A model of parselmouth's incremental mapping pipeline:                  *)
(*   - the producer / shard worker / merger of the conda -> PyPI index     *)
(*     (internals/updater_producer.py, updater.py, updater_merger.py),     *)
(*   - the relations table and the PyPI -> conda lookups                   *)
(*     (internals/package_relations.py),                                   *)
(*   - the incremental lookup uploader (internals/relations_updater.py).   *)
(*                                                                         *)
(* Python strings on which the code does character work (startswith,       *)
(* endswith, [0], sorted) are sequences of one-character strings.  Python  *)
(* dicts are functions; a dict whose keys are such strings has sequences   *)
(* as keys.                                                                *)
(***************************************************************************)
EXTENDS Integers, Sequences, FiniteSets, TLC

VARIABLES
    \* ---- upstream and configuration (inputs of a pipeline run)
    channel,        \* the SupportedChannels member the commands are run for
    channeldata,    \* subdirs that channeldata.json lists for the channel
    upstream,       \* label -> subdir -> (filename -> repodata record)
    yank,           \* YankConfig.packages
    \* ---- object store (hash-v0/...)
    storeIndex,     \* hash-v0/<channel>/index.json: None or an IndexMapping
    storeMappings,  \* hash-v0/<sha256> objects: sha256 -> MappingEntry
    \* ---- local disk
    fs,             \* path (a tuple of path components) -> file content
    \* ---- module state of updater.py
    names_mapping,  \* updater.names_mapping, the module-level IndexMapping
    \* ---- what the commands did (stdout, logs, exit)
    producer,       \* the producer run: status, printed shards, selection
    workers,        \* shard -> what the worker run for it did
    merger,         \* the merger run
    \* ---- incremental lookup uploader
    index,          \* the IndexMapping the relations table is built from
    lookupStore,    \* pypi-to-conda-v1/<channel>/<name>.json objects
    up,             \* the uploader run in progress and the history of runs
    \* ---- artifact extraction (conda_forge.get_artifact_info, artifact.py)
    art,            \* the last call: its arguments and what it returned
    \* ---- a shard worker followed statement by statement (updater.main)
    proc,           \* the worker process: where it is and what it writes
    \* ---- explorer index cache (index_cache.py)
    cacheIndex,     \* index_<channel>_<hash>.json: absent or its content
    cacheMeta,      \* index_<channel>_<hash>.meta: absent or its content
    fetch,          \* the fetch_channel_index_cached call in progress
    \* ---- relations table built and serialized (package_relations.py)
    rel,            \* the builder runs made: index, time, table, payload
    \* ---- module state of http_utils.py and the threads that use it
    global_session,       \* http_utils._global_session: None or a session
    global_session_lock,  \* http_utils._global_session_lock: its holder
    threads,              \* thread -> the call it is in and where
    sessions              \* how many sessions were constructed so far

pipeVars == <<channel, channeldata, upstream, yank, storeIndex, storeMappings,
              fs, names_mapping, producer, workers, merger>>
lookVars == <<index, lookupStore, up>>
artVars == <<art>>
shardVars == <<proc>>
cacheVars == <<cacheIndex, cacheMeta, fetch>>
relVars == <<rel>>
sessVars == <<global_session, global_session_lock, threads, sessions>>
vars == <<channel, channeldata, upstream, yank, storeIndex, storeMappings,
          fs, names_mapping, producer, workers, merger,
          index, lookupStore, up, art, proc, cacheIndex, cacheMeta, fetch,
          rel, global_session, global_session_lock, threads, sessions>>

None == "None"

(***************************************************************************)
(* Strings as character sequences                                          *)
(***************************************************************************)

\* str.startswith
StartsWith(s, prefix) ==
    /\ Len(prefix) <= Len(s)
    /\ SubSeq(s, 1, Len(prefix)) = prefix

\* str.endswith
EndsWith(s, suffix) ==
    /\ Len(suffix) <= Len(s)
    /\ SubSeq(s, Len(s) - Len(suffix) + 1, Len(s)) = suffix

\* dict.get(key): the value, or None when the key is absent
Get(d, key) == IF key \in DOMAIN d THEN d[key] ELSE None

\* "if not x" on an Optional[str]: None and the empty string are falsy
Falsy(x) == x \in {None, ""}

\* The strings of the model
S_main == <<"m", "a", "i", "n">>
S_dev == <<"d", "e", "v">>
S_sha256 == <<"s", "h", "a", "2", "5", "6">>
S_conda == <<".", "c", "o", "n", "d", "a">>
S_tarbz2 == <<".", "t", "a", "r", ".", "b", "z", "2">>
\* m-1-0.conda, n-1-0.tar.bz2, n-2-0.conda
F_m == <<"m", "-", "1", "-", "0">> \o S_conda
F_n == <<"n", "-", "1", "-", "0">> \o S_tarbz2
F_n2 == <<"n", "-", "2", "-", "0">> \o S_conda

(***************************************************************************)
(* Data: channels, records, mapping entries, the object store              *)
(***************************************************************************)

CONDA_FORGE == "conda-forge"
PYTORCH == "pytorch"
BIOCONDA == "bioconda"
TANGO_CONTROLS == "tango-controls"

\* BackendRequestType
OCI == "oci"
STREAMED == "streamed"
DOWNLOAD == "download"

\* SupportedChannels.support_channeldata
support_channeldata(chan) == chan \in {CONDA_FORGE, PYTORCH, BIOCONDA}

\* Optional[...] values whose payload is not a string
NoneOf == [some |-> FALSE]
Some(v) == [some |-> TRUE, v |-> v]

AllSubdirs == {"linux-64", "noarch"}
\* parselmouth.internals.subdirs.DEFAULT_SUBDIRS, the built-in subdir list
DEFAULT_SUBDIRS == AllSubdirs

\* fetch_channel_labels: the channel's labels as the Anaconda API lists them
ChannelLabels == <<S_main, S_dev>>

\* A repodata record: a dict that carries "sha256" (or lacks it)
Rec(sha) == (S_sha256 :> sha)
NoShaRec == [k \in {} |-> None]

\* The "packages" + "packages.conda" dicts a repodata.json may hold
D_empty == [k \in {} |-> None]
D_two == (F_m :> Rec("h1")) @@ (F_n :> Rec("h2"))
D_nosha == (F_m :> NoShaRec) @@ (F_n2 :> Rec("h1"))
D_one == (F_n :> Rec("h2"))

\* What is inside the artifacts: the conda name of index.json and whether a
\* dist-info / egg-info directory is among the files
CondaNameOf(file) == IF Head(file) = "m" THEN "m" ELSE "n"
HasPypi(file) == file # F_n2

\* MappingEntry (s3.py)
MappingEntry(names, versions, conda_name, package_name, direct_url) ==
    [pypi_normalized_names |-> names, versions |-> versions,
     conda_name |-> conda_name, package_name |-> package_name,
     direct_url |-> direct_url]

EntryFor(file, withNames) ==
    MappingEntry(IF withNames THEN Some(<<CondaNameOf(file)>>) ELSE NoneOf,
                 IF withNames THEN Some((CondaNameOf(file) :> "1")) ELSE NoneOf,
                 CondaNameOf(file), file, NoneOf)

\* IndexMapping.root: sha256 -> MappingEntry
EmptyIndex == [h \in {} |-> None]

\* `x in model` for a pydantic model (updater.py writes
\* `sha256 not in existing_mapping_data` and `sha not in names_mapping`, both
\* IndexMapping objects, not their .root dicts).  BaseModel defines no
\* __contains__, so Python iterates the model, and BaseModel.__iter__ yields
\* the (field name, value) pairs: for a RootModel the single pair
\* ("root", {...}).  A sha256 string is never equal to that pair.
ModelContains(x, model) == FALSE

\* No call of get_artifact_info / extract_artifact_mapping made yet
ArtIdle == [call |-> "none"]
\* No worker process followed statement by statement
ProcIdle == [pc |-> "idle", runs |-> 0]
\* The cache directory before any fetch, and no fetch in progress
Absent == [exists |-> FALSE]
\* kills, others and sent are the history of the directory: how often a call
\* was killed, how many calls another process made, and which validators
\* the server sent with which body
FetchIdle == [pc |-> "idle", calls |-> 0, kills |-> 0, others |-> 0, sent |-> {}]
\* No relations table built, no session made, no thread in http_utils
Threads == {"t1", "t2", "t3"}
ThreadIdle ==
    [pc |-> "idle", op |-> "none", calls |-> 0, closes |-> 0, raced |-> FALSE,
     returned |-> <<>>]
RelIdle == [runs |-> <<>>]
RestIdle ==
    /\ rel = RelIdle
    /\ global_session = NoneOf /\ global_session_lock = None
    /\ threads = [t \in Threads |-> ThreadIdle]
    /\ sessions = 0
OthersIdle ==
    /\ art = ArtIdle /\ proc = ProcIdle
    /\ cacheIndex = Absent /\ cacheMeta = Absent
    /\ fetch = FetchIdle
    /\ RestIdle

\* S3.get_channel_index: None when the key does not exist
get_channel_index == storeIndex

\* "if not existing_mapping_data: existing_mapping_data = IndexMapping(root={})"
\* The producer starting from the empty index whatever is stored
IndexAlwaysEmpty(maybe) == EmptyIndex

IndexOrEmpty(maybe) == IF maybe.some THEN maybe.v ELSE EmptyIndex

(***************************************************************************)
(* Local disk.  A path is a tuple of components; a file name is itself a   *)
(* tuple of strings.                                                       *)
(***************************************************************************)

OUTPUT_INDEX == <<"output_index">>   \* cli.py: updater_producer --output-dir
OUTPUT == <<"output">>               \* cli.py: --partial-output-dir, merger --output-dir
IndexJson == <<"index.json">>

\* f"{subdir}@{letter}"
ShardString(subdir, letter) == <<subdir, letter>>
\* f"{subdir}@{letter}.json"
PartialJsonName(subdir, letter) == <<subdir, "@">> \o letter \o <<".json">>

FileExists(disk, path) == path \in DOMAIN disk
\* os.listdir(dir): the names directly under dir
ListDir(disk, dir) ==
    {p[Len(p)] : p \in {q \in DOMAIN disk : Len(q) = Len(dir) + 1
                                             /\ SubSeq(q, 1, Len(dir)) = dir}}
\* A directory exists once os.makedirs created it for a file written in it
DirExists(disk, dir) ==
    \E q \in DOMAIN disk : Len(q) > Len(dir) /\ SubSeq(q, 1, Len(dir)) = dir
WriteFile(disk, path, content) ==
    [q \in DOMAIN disk \cup {path} |-> IF q = path THEN content ELSE disk[q]]

\* A set as a sequence, in some fixed order (dict iteration order)
RECURSIVE SetToSeq(_)
SetToSeq(S) ==
    IF S = {} THEN <<>>
    ELSE LET x == CHOOSE y \in S : TRUE IN <<x>> \o SetToSeq(S \ {x})

Range(s) == {s[i] : i \in DOMAIN s}

(***************************************************************************)
(* Repodata client (conda_forge.py)                                        *)
(***************************************************************************)

\* get_all_archs_available: the subdirs channeldata.json lists
get_all_archs_available == channeldata

\* The earlier revision of get_all_packages_by_subdir (parselmouth/conda_forge.py):
\* one flat dict filename -> record
FlatPackagesBySubdir(chan, subdir, ups) == ups[S_main][subdir]

\* get_all_packages_by_subdir(subdir, channel): a dict keyed by LABEL, each
\* value the filename -> record dict of that label ("packages" updated with
\* "packages.conda").  A channel with channeldata has the single label "main".
get_all_packages_by_subdir(chan, subdir, ups) ==
    IF ~support_channeldata(chan)
    THEN [label \in Range(ChannelLabels) |-> ups[label][subdir]]
    ELSE (S_main :> ups[S_main][subdir])

(***************************************************************************)
(* Producer (updater_producer.main)                                        *)
(***************************************************************************)

\* The loop body of the producer for one record t = (subdir, label, filename)
\* (lines 60-79) without the check of pypi_normalized_names
ProducerRecordNoPypiCheck(t, byLabel, existing, check_if_pypi_exists, acc) ==
    LET package == byLabel[t[1]][t[2]][t[3]]
        sha256 == Get(package, S_sha256)
    IN IF Falsy(sha256)
       THEN [acc EXCEPT !.skipped = @ \cup {t}]
       ELSE IF sha256 \notin DOMAIN existing
       THEN [acc EXCEPT !.letters = @ \cup {ShardString(t[1], <<t[3][1]>>)},
                        !.all_packages = @ \cup {<<t[1], t[3]>>}]
       ELSE acc
\* The loop body of the producer for one record t = (subdir, label, filename)
\* (lines 60-79); acc holds letters, all_packages (with the subdir of each
\* name) and the records the warning of line 64 was logged for.
ProducerRecord(t, byLabel, existing, check_if_pypi_exists, acc) ==
    LET subdir == t[1]
        package_name == t[3]
        package == byLabel[subdir][t[2]][package_name]
        sha256 == Get(package, S_sha256)
        add == [acc EXCEPT
                  !.letters = @ \cup {ShardString(subdir, <<package_name[1]>>)},
                  !.all_packages = @ \cup {<<subdir, package_name>>}]
    IN IF Falsy(sha256)
       THEN [acc EXCEPT !.skipped = @ \cup {t}]
       ELSE IF sha256 \notin DOMAIN existing
       THEN add
       ELSE IF check_if_pypi_exists
               /\ ~existing[sha256].pypi_normalized_names.some
       THEN add
       ELSE acc

\* The three nested loops of lines 56-79 over the records still to scan
RECURSIVE ProducerScan(_, _, _, _, _)
ProducerScan(todo, byLabel, existing, check_if_pypi_exists, acc) ==
    IF todo = {} THEN acc
    ELSE LET t == CHOOSE x \in todo : TRUE
         IN ProducerScan(todo \ {t}, byLabel, existing, check_if_pypi_exists,
                         ProducerRecord(t, byLabel, existing,
                                        check_if_pypi_exists, acc))

\* Lines 31-41: the subdirs to scan, or ValueError
ProducerSubdirs(chan, subdirArg) ==
    LET subdirs == IF ~support_channeldata(chan) THEN DEFAULT_SUBDIRS
                   ELSE get_all_archs_available
    IN IF subdirArg # None /\ subdirArg \in subdirs
       THEN [error |-> None, subdirs |-> {subdirArg}]
       ELSE IF subdirArg # None
       THEN [error |-> "ValueError", subdirs |-> {}]
       ELSE [error |-> None, subdirs |-> subdirs]

ProducerIdle ==
    [status |-> "idle", error |-> None, printed |-> {}, all_packages |-> {},
     skipped |-> {}, subdirs |-> {}, check_if_exists |-> FALSE,
     check_if_pypi_exists |-> FALSE]

UpdaterProducer(check_if_exists, check_if_pypi_exists, subdirArg, httpOk) ==
    /\ producer.status = "idle"
    /\ LET sel == ProducerSubdirs(channel, subdirArg)
           existing == IF check_if_exists THEN IndexOrEmpty(get_channel_index)
                       ELSE EmptyIndex
           byLabel == [sd \in sel.subdirs |->
                          get_all_packages_by_subdir(channel, sd, upstream)]
           todo == {<<sd, label, name>> \in
                       sel.subdirs \X Range(ChannelLabels) \X {F_m, F_n, F_n2} :
                         /\ label \in DOMAIN byLabel[sd]
                         /\ name \in DOMAIN byLabel[sd][label]}
           out == ProducerScan(todo, byLabel, existing, check_if_pypi_exists,
                               [letters |-> {}, all_packages |-> {}, skipped |-> {}])
           index_location == OUTPUT_INDEX \o <<channel, IndexJson>>
       IN IF sel.error # None
          THEN /\ producer' = [ProducerIdle EXCEPT !.status = "error",
                                                   !.error = sel.error]
               /\ UNCHANGED fs
          ELSE IF ~httpOk
          \* get_subdir_repodata: response.raise_for_status()
          THEN /\ producer' = [ProducerIdle EXCEPT !.status = "error",
                                                   !.error = "HTTPError"]
               /\ UNCHANGED fs
          ELSE /\ fs' = WriteFile(fs, index_location, existing)
               /\ producer' = [status |-> "done", error |-> None,
                               printed |-> out.letters,
                               all_packages |-> out.all_packages,
                               skipped |-> out.skipped,
                               subdirs |-> sel.subdirs,
                               check_if_exists |-> check_if_exists,
                               check_if_pypi_exists |-> check_if_pypi_exists]
    /\ UNCHANGED <<channel, channeldata, upstream, yank, storeIndex,
                   storeMappings, names_mapping, workers, merger>>
    /\ UNCHANGED <<lookVars, artVars, shardVars, cacheVars, relVars, sessVars>>

(***************************************************************************)
(* Yank configuration (yank.py)                                            *)
(***************************************************************************)

PackageInfo(name, platforms, channels) ==
    [name |-> name, platforms |-> platforms, channels |-> channels]

\* YankConfig.should_yank(artifact, subdir, channel), artifact["name"] given
should_yank(packages, artifact_name, subdir, chan) ==
    \E package \in packages :
        /\ artifact_name = package.name
        /\ subdir \in package.platforms
        /\ chan \in package.channels

(***************************************************************************)
(* Shard worker (updater.main)                                             *)
(***************************************************************************)

Letters == {<<"m">>, <<"n">>}
AllShards == {ShardString(sd, l) : sd \in AllSubdirs, l \in Letters}
Outcomes == {"artifact", "none", "exception"}

\* Lines 168-199: the loop body for one key of repodatas
WorkerKey(package_name, repodatas, letter, existing, chan, acc) ==
    IF acc.error # None THEN acc
    ELSE IF ~StartsWith(package_name, letter) THEN acc
    ELSE
      LET package == repodatas[package_name]
      IN IF S_sha256 \notin DOMAIN package
         THEN [acc EXCEPT !.error = "KeyError"]       \* package["sha256"]
         ELSE IF ~ModelContains(package[S_sha256], existing)
         THEN IF EndsWith(package_name, S_conda)
              THEN [acc EXCEPT !.all_packages = @ \cup {<<package_name, STREAMED>>}]
              ELSE IF EndsWith(package_name, S_tarbz2) /\ chan = CONDA_FORGE
              THEN [acc EXCEPT !.all_packages = @ \cup {<<package_name, OCI>>}]
              ELSE IF EndsWith(package_name, S_tarbz2) /\ chan = PYTORCH
              THEN [acc EXCEPT !.all_packages = @ \cup {<<package_name, STREAMED>>}]
              ELSE [acc EXCEPT !.warned = @ \cup {package_name}]
         ELSE acc

\* Line 168: for idx, package_name in enumerate(repodatas)
RECURSIVE WorkerScan(_, _, _, _, _, _)
WorkerScan(keys, repodatas, letter, existing, chan, acc) ==
    IF keys = <<>> THEN acc
    ELSE WorkerScan(Tail(keys), repodatas, letter, existing, chan,
                    WorkerKey(Head(keys), repodatas, letter, existing, chan, acc))

\* Lines 215-270: the handling of the completed futures; outcomes gives what
\* get_artifact_info did for each submitted artifact
RECURSIVE WorkerResults(_, _, _, _)
WorkerResults(todo, outcomes, repodatas, mapping) ==
    IF todo = {} THEN mapping
    ELSE
      LET job == CHOOSE x \in todo : TRUE
          package_name == job[1]
          sha == repodatas[package_name][S_sha256]
          entry == EntryFor(package_name, HasPypi(package_name))
          next == IF outcomes[job] = "artifact" /\ ~ModelContains(sha, mapping)
                  THEN [h \in DOMAIN mapping \cup {sha} |->
                          IF h = sha THEN entry ELSE mapping[h]]
                  ELSE mapping
      IN WorkerResults(todo \ {job}, outcomes, repodatas, next)

WorkerIdle ==
    [status |-> "idle", error |-> None, enqueued |-> {}, fetched |-> {},
     outcomes |-> <<>>, inserted |-> {}, uploaded |-> {}, wrote |-> FALSE]

Worker(shard, upload) ==
    /\ workers[shard].status = "idle"
    /\ LET subdir == shard[1]
           letter == shard[2]
           index_location == OUTPUT_INDEX \o <<channel, IndexJson>>
           repodatas == get_all_packages_by_subdir(channel, subdir, upstream)
           scan == WorkerScan(SetToSeq(DOMAIN repodatas), repodatas, letter,
                              fs[index_location], channel,
                              [error |-> None, all_packages |-> {}, warned |-> {}])
           fail(e) == /\ workers' = [workers EXCEPT ![shard] =
                                       [WorkerIdle EXCEPT !.status = "error",
                                                          !.error = e]]
                      /\ UNCHANGED <<fs, names_mapping, storeMappings>>
       IN IF ~FileExists(fs, index_location)
          THEN fail("FileNotFoundError")              \* index_location.read_text()
          ELSE IF scan.error # None
          THEN fail(scan.error)
          ELSE \E outcomes \in [scan.all_packages -> Outcomes] :
                 LET mapping == WorkerResults(scan.all_packages, outcomes,
                                              repodatas, names_mapping)
                 IN \E uploadOk \in SUBSET (DOMAIN mapping) :
                      /\ names_mapping' = mapping
                      /\ storeMappings' =
                           IF upload
                           THEN [h \in DOMAIN storeMappings \cup uploadOk |->
                                   IF h \in uploadOk THEN mapping[h]
                                   ELSE storeMappings[h]]
                           ELSE storeMappings
                      /\ fs' = WriteFile(fs,
                                 OUTPUT \o <<channel, PartialJsonName(subdir, letter)>>,
                                 mapping)
                      /\ workers' = [workers EXCEPT ![shard] =
                           [status |-> "done", error |-> None,
                            enqueued |-> {j[1] : j \in scan.all_packages},
                            fetched |-> {j[1] : j \in scan.all_packages},
                            outcomes |-> outcomes,
                            inserted |-> DOMAIN mapping,
                            uploaded |-> IF upload THEN uploadOk ELSE {},
                            wrote |-> TRUE]]
    /\ UNCHANGED <<channel, channeldata, upstream, yank, storeIndex,
                   producer, merger>>
    /\ UNCHANGED <<lookVars, artVars, shardVars, cacheVars, relVars, sessVars>>

(***************************************************************************)
(* Merger (updater_merger.main)                                            *)
(***************************************************************************)

\* MappingEntry.model_validate_json: conda_name and package_name are required
ValidatesAsMappingEntry(content) ==
    {"conda_name", "package_name"} \subseteq DOMAIN content

\* dict.update with the (field, value) pairs the validated model iterates as
UpdateRoot(root, content) ==
    [k \in DOMAIN root \cup DOMAIN content |->
        IF k \in DOMAIN content THEN content[k] ELSE root[k]]

\* Lines 18-23 reading each file where it was listed and merging it as a
\* partial index
RECURSIVE MergerLoopPartials(_, _, _, _)
MergerLoopPartials(filenames, output_dir, disk, acc) ==
    IF filenames = <<>> THEN acc
    ELSE LET partial_file == output_dir \o <<channel, Head(filenames)>>
         IN MergerLoopPartials(Tail(filenames), output_dir, disk,
                [acc EXCEPT !.root = UpdateRoot(@, disk[partial_file]),
                            !.total_new_files = @ + 1])

\* Lines 18-23: the loop over os.listdir(output_dir_location)
RECURSIVE MergerLoop(_, _, _, _)
MergerLoop(filenames, output_dir, disk, acc) ==
    IF filenames = <<>> \/ acc.error # None THEN acc
    ELSE
      LET partial_file == output_dir \o <<Head(filenames)>>
          next == IF ~FileExists(disk, partial_file)
                  THEN [acc EXCEPT !.error = "FileNotFoundError"]
                  ELSE IF ~ValidatesAsMappingEntry(disk[partial_file])
                  THEN [acc EXCEPT !.error = "ValidationError"]
                  ELSE [acc EXCEPT !.root = UpdateRoot(@, disk[partial_file]),
                                   !.total_new_files = @ + 1]
      IN MergerLoop(Tail(filenames), output_dir, disk, next)

MergerIdle == [status |-> "idle", error |-> None, upload |-> FALSE, after |-> {}]

Merger(upload) ==
    /\ merger.status = "idle"
    /\ LET existing == IndexOrEmpty(get_channel_index)
           output_dir_location == OUTPUT \o <<channel>>
           out == MergerLoop(SetToSeq(ListDir(fs, output_dir_location)), OUTPUT, fs,
                             [error |-> None, root |-> existing, total_new_files |-> 0])
           \* the shard workers that had finished when the merger started
           after == {shard \in AllShards : workers[shard].status = "done"}
       IN IF ~DirExists(fs, output_dir_location)
          THEN /\ merger' = [status |-> "error", error |-> "FileNotFoundError",
                             upload |-> upload, after |-> after]
               /\ UNCHANGED storeIndex
          ELSE IF out.error # None
          THEN /\ merger' = [status |-> "error", error |-> out.error,
                             upload |-> upload, after |-> after]
               /\ UNCHANGED storeIndex
          ELSE /\ merger' = [status |-> "done", error |-> None, upload |-> upload,
                             after |-> after]
               /\ storeIndex' = IF upload THEN Some(out.root) ELSE storeIndex
    /\ UNCHANGED <<channel, channeldata, upstream, yank, storeMappings, fs,
                   names_mapping, producer, workers>>
    /\ UNCHANGED <<lookVars, artVars, shardVars, cacheVars, relVars, sessVars>>

(***************************************************************************)
(* The index pipeline: producer, shard workers, merger                     *)
(***************************************************************************)

EmptyStore == [n \in {} |-> None]
UploaderIdle ==
    [phase |-> "idle", runs |-> 0, status |-> "none", upload |-> FALSE,
     skip_unchanged |-> FALSE, table |-> <<>>,
     pending |-> {}, files_to_upload |-> {}, check_failed |-> {},
     uploaded |-> {}, upload_failed |-> {}, deleted |-> {}, delete_failed |-> {},
     before |-> EmptyStore,
     prev |-> [status |-> "none", upload |-> FALSE, skip_unchanged |-> FALSE,
               table |-> <<>>]]

\* Indexes the store can hold when the pipeline starts
Entry_h2 == ("h2" :> EntryFor(F_n, TRUE))
Entry_h2_nonames == ("h2" :> EntryFor(F_n, FALSE))
\* A partial index an earlier run of a worker left in <partial_output_dir>
LeftoverPartial == ("h3" :> EntryFor(F_n2, TRUE)) @@ ("h2" :> EntryFor(F_n2, TRUE))
LeftoverPath(chan) == OUTPUT \o <<chan, PartialJsonName("osx-64", <<"p">>)>>

InitPipeline ==
    /\ channel \in {CONDA_FORGE, TANGO_CONTROLS}
    /\ channeldata \in IF support_channeldata(channel)
                       THEN {AllSubdirs, {"linux-64"}} ELSE {{}}
    /\ \E lin \in {D_two, D_nosha}, noa \in {D_empty, D_one},
          dev \in IF support_channeldata(channel) THEN {D_empty}
                  ELSE {D_empty, D_nosha} :
         upstream = (S_main :> ("linux-64" :> lin @@ "noarch" :> noa))
                    @@ (S_dev :> ("linux-64" :> dev @@ "noarch" :> D_empty))
    /\ yank = {PackageInfo("n", {"linux-64"}, {channel})}
    /\ storeIndex \in {NoneOf, Some(Entry_h2), Some(Entry_h2_nonames)}
    /\ storeMappings = EmptyIndex
    /\ fs \in {[q \in {} |-> None],
               (LeftoverPath(channel) :> LeftoverPartial)}
    /\ names_mapping = EmptyIndex
    /\ producer = ProducerIdle
    /\ workers = [shard \in AllShards |-> WorkerIdle]
    /\ merger = MergerIdle
    /\ index = <<>>
    /\ lookupStore = EmptyStore
    /\ up = UploaderIdle
    /\ OthersIdle

NextPipeline ==
    \/ \E check_if_exists \in BOOLEAN, check_if_pypi_exists \in BOOLEAN,
          subdirArg \in {None, "linux-64", "win-64"}, httpOk \in BOOLEAN :
         UpdaterProducer(check_if_exists, check_if_pypi_exists, subdirArg, httpOk)
    \/ \E shard \in AllShards, upload \in BOOLEAN : Worker(shard, upload)
    \/ \E upload \in BOOLEAN : Merger(upload)

SpecPipeline == InitPipeline /\ [][NextPipeline]_vars

(***************************************************************************)
(* Properties of the index pipeline                                        *)
(***************************************************************************)

Snapshot == fs[OUTPUT_INDEX \o <<channel, IndexJson>>]
\* The records upstream lists for a subdir: (label, filename) pairs
RecordsOf(subdir) ==
    {r \in Range(ChannelLabels) \X {F_m, F_n, F_n2} :
        r[2] \in DOMAIN upstream[r[1]][subdir]}
ShaOf(subdir, r) == Get(upstream[r[1]][subdir][r[2]], S_sha256)

\* C1: with check_if_pypi_exists off, once a worker has run for every shard
\* the producer printed, the records those workers enqueued are together
\* exactly the records the producer selected as new, and no record was
\* enqueued by two shards.
C1_ShardPartitioning ==
    ( /\ producer.status = "done"
      /\ ~producer.check_if_pypi_exists
      /\ \A shard \in producer.printed : workers[shard].status \in {"done", "error"}
      /\ \A shard \in producer.printed : workers[shard].error # "FileNotFoundError" )
    => /\ UNION {{<<shard[1], f>> : f \in workers[shard].enqueued} :
                    shard \in producer.printed} = producer.all_packages
       /\ \A s1, s2 \in producer.printed :
            s1 # s2 => {<<s1[1], f>> : f \in workers[s1].enqueued}
                         \cap {<<s2[1], f>> : f \in workers[s2].enqueued} = {}

\* The index the producer loaded
C2_Loaded == IF producer.check_if_exists THEN IndexOrEmpty(storeIndex) ELSE EmptyIndex
C2_Selects(subdir, c) ==
    \E r \in RecordsOf(subdir) :
        /\ StartsWith(r[2], c)
        /\ ~Falsy(ShaOf(subdir, r))
        /\ \/ ShaOf(subdir, r) \notin DOMAIN C2_Loaded
           \/ /\ producer.check_if_pypi_exists
              /\ ~C2_Loaded[ShaOf(subdir, r)].pypi_normalized_names.some

\* C2: the producer prints subdir@c exactly when some record of that (scanned)
\* subdir starting with c has a sha256 that is new to the loaded index or,
\* with check_if_pypi_exists, whose entry has no pypi_normalized_names; a
\* record without sha256 is warned about, yields no shard and does not stop
\* the scan.
C2_ProducerShards ==
    producer.status = "done" =>
      /\ \A subdir \in producer.subdirs, c \in Letters :
           ShardString(subdir, c) \in producer.printed <=> C2_Selects(subdir, c)
      /\ \A shard \in producer.printed : shard[1] \in producer.subdirs
      /\ \A subdir \in producer.subdirs : \A r \in RecordsOf(subdir) :
           Falsy(ShaOf(subdir, r)) <=> <<subdir, r[1], r[2]>> \in producer.skipped

C2_Witness ==
    /\ producer.status = "done"
    /\ producer.check_if_exists /\ producer.check_if_pypi_exists
    /\ storeIndex = Some(Entry_h2_nonames)
    /\ producer.skipped # {}
    /\ ShardString("noarch", <<"n">>) \in producer.printed
    /\ ShardString("linux-64", <<"m">>) \in producer.printed

\* The artifacts of a shard whose sha256 is a key of the snapshot
C3_Baseline(shard) ==
    {r \in RecordsOf(shard[1]) :
        /\ StartsWith(r[2], shard[2])
        /\ ShaOf(shard[1], r) \in DOMAIN Snapshot}

C4_Partials == {q \in DOMAIN fs : Len(q) = 3 /\ SubSeq(q, 1, 2) = OUTPUT \o <<channel>>}

\* C4: after the merger ran with upload=true, the stored canonical index maps
\* every hash of every partial-index file to that file's entry.
C4_MergerMergesPartials ==
    (merger.status # "idle" /\ merger.upload) =>
       \A q \in C4_Partials : \A h \in DOMAIN fs[q] :
          /\ storeIndex.some
          /\ h \in DOMAIN storeIndex.v
          /\ storeIndex.v[h] = fs[q][h]

\* C5: an artifact the yank configuration matches is not inserted into the
\* partial index by its shard's worker, and after producer, worker and merger
\* ran for its shard its sha256 is not a key of the canonical index.
C5_YankDominance ==
    \A shard \in AllShards : \A r \in RecordsOf(shard[1]) :
      ( /\ StartsWith(r[2], shard[2])
        /\ ~Falsy(ShaOf(shard[1], r))
        /\ should_yank(yank, CondaNameOf(r[2]), shard[1], channel) )
      => /\ ShaOf(shard[1], r) \notin workers[shard].inserted
         /\ ( /\ shard \in producer.printed
              /\ shard \in merger.after
              /\ merger.status # "idle" )
            => ~(storeIndex.some /\ ShaOf(shard[1], r) \in DOMAIN storeIndex.v)

(***************************************************************************)
(* Relations table and PyPI lookups (package_relations.py)                 *)
(***************************************************************************)

\* The characters of the names the lookups use, and their code points
Chars(name) ==
    CASE name = "ab" -> <<"a", "b">>
      [] name = "abx" -> <<"a", "b", "x">>
      [] name = "b" -> <<"b">>
      [] name = "c" -> <<"c">>
      [] name = "d" -> <<"d">>
      [] OTHER -> <<>>
Code(c) ==
    CASE c = "a" -> 97 [] c = "b" -> 98 [] c = "c" -> 99
      [] c = "d" -> 100 [] c = "x" -> 120 [] OTHER -> 0

\* Python's order of two strings given as character sequences: s < t
RECURSIVE SeqLess(_, _)
SeqLess(s, t) ==
    IF t = <<>> THEN FALSE
    ELSE IF s = <<>> THEN TRUE
    ELSE IF Code(Head(s)) # Code(Head(t)) THEN Code(Head(s)) < Code(Head(t))
    ELSE SeqLess(Tail(s), Tail(t))
StrLess(a, b) == SeqLess(Chars(a), Chars(b))

\* sorted(names)
RECURSIVE Sorted(_)
Sorted(S) ==
    IF S = {} THEN <<>>
    ELSE LET least == CHOOSE x \in S : \A y \in S \ {x} : StrLess(x, y)
         IN <<least>> \o Sorted(S \ {least})

\* list(dict.fromkeys(items)): the items without repetition, first occurrence kept
RECURSIVE Unique(_)
Unique(items) ==
    IF items = <<>> THEN <<>>
    ELSE LET rest == Unique(SubSeq(items, 1, Len(items) - 1))
             last == items[Len(items)]
         IN IF last \in Range(rest) THEN rest ELSE Append(rest, last)

\* The index of the last "-" of a character sequence, 0 if there is none
RECURSIVE LastDash(_)
LastDash(s) ==
    IF s = <<>> THEN 0
    ELSE IF s[Len(s)] = "-" THEN Len(s)
    ELSE LastDash(SubSeq(s, 1, Len(s) - 1))

\* parse_conda_filename: (version, build) of <name>-<version>-<build><extension>
parse_conda_filename(filename) ==
    LET name == IF EndsWith(filename, S_conda)
                THEN SubSeq(filename, 1, Len(filename) - Len(S_conda))
                ELSE IF EndsWith(filename, S_tarbz2)
                THEN SubSeq(filename, 1, Len(filename) - Len(S_tarbz2))
                ELSE filename
        d2 == LastDash(name)
        d1 == IF d2 = 0 THEN 0 ELSE LastDash(SubSeq(name, 1, d2 - 1))
    IN IF d1 > 0
       THEN <<SubSeq(name, d1 + 1, d2 - 1), SubSeq(name, d2 + 1, Len(name))>>
       ELSE <<<<"unknown">>, <<"unknown">>>>

PackageRelation(conda_name, conda_filename, conda_hash, pypi_name, pypi_version, chan, direct_url) ==
    [conda_name |-> conda_name, conda_filename |-> conda_filename,
     conda_hash |-> conda_hash, pypi_name |-> pypi_name,
     pypi_version |-> pypi_version, channel |-> chan, direct_url |-> direct_url]

\* _entry_to_relations giving up on an entry one of whose names has no version
EntryNamesToRelationsAllOrNone(names, conda_hash, entry, chan) ==
    IF ~entry.versions.some
       \/ \E i \in 1..Len(names) : names[i] \notin DOMAIN entry.versions.v
    THEN <<>>
    ELSE [i \in 1..Len(names) |->
            PackageRelation(entry.conda_name, entry.package_name, conda_hash,
                            names[i], entry.versions.v[names[i]], chan,
                            entry.direct_url)]

\* RelationsTable._entry_to_relations: one relation per PyPI name that has a version
RECURSIVE EntryNamesToRelations(_, _, _, _)
EntryNamesToRelations(names, conda_hash, entry, chan) ==
    IF names = <<>> THEN <<>>
    ELSE LET pypi_name == Head(names)
             rest == EntryNamesToRelations(Tail(names), conda_hash, entry, chan)
         IN IF ~entry.versions.some \/ pypi_name \notin DOMAIN entry.versions.v
            THEN rest
            ELSE <<PackageRelation(entry.conda_name, entry.package_name,
                                   conda_hash, pypi_name,
                                   entry.versions.v[pypi_name], chan,
                                   entry.direct_url)>> \o rest
entry_to_relations(conda_hash, entry, chan) ==
    IF ~entry.pypi_normalized_names.some \/ entry.pypi_normalized_names.v = <<>>
    THEN <<>>
    ELSE EntryNamesToRelations(entry.pypi_normalized_names.v, conda_hash, entry, chan)

\* RelationsTable.from_conda_to_pypi_index: items is index.root.items() in order
RECURSIVE from_conda_to_pypi_index(_, _)
from_conda_to_pypi_index(items, chan) ==
    IF items = <<>> THEN <<>>
    ELSE entry_to_relations(Head(items)[1], Head(items)[2], chan)
           \o from_conda_to_pypi_index(Tail(items), chan)

\* The relations of a sequence that satisfy name (and version), in order
RECURSIVE RelationsOf(_, _)
RelationsOf(relations, pypi_name) ==
    IF relations = <<>> THEN <<>>
    ELSE (IF Head(relations).pypi_name = pypi_name THEN <<Head(relations)>> ELSE <<>>)
           \o RelationsOf(Tail(relations), pypi_name)

\* One entry per CondaPackageVersion of (name, version): for each conda name
\* in sorted order, as many as it has conda versions
RECURSIVE CondaPackageNames(_, _, _)
CondaPackageNames(sortedNames, related, pypi_version) ==
    IF sortedNames = <<>> THEN <<>>
    ELSE LET conda_versions ==
               {parse_conda_filename(r.conda_filename)[1] :
                  r \in {x \in Range(related) :
                           x.pypi_version = pypi_version
                           /\ x.conda_name = Head(sortedNames)}}
         IN [j \in 1..Cardinality(conda_versions) |-> Head(sortedNames)]
              \o CondaPackageNames(Tail(sortedNames), related, pypi_version)

\* RelationsTable.generate_pypi_to_conda_lookups: per PyPI name, per PyPI
\* version (both in the order of first occurrence), the conda packages sorted
\* by name and then by conda version; of each CondaPackageVersion the name
generate_pypi_to_conda_lookups(relations) ==
    LET names == Unique([i \in 1..Len(relations) |-> relations[i].pypi_name])
    IN [name \in Range(names) |->
          LET related == RelationsOf(relations, name)
              versions == Unique([i \in 1..Len(related) |-> related[i].pypi_version])
          IN [i \in 1..Len(versions) |->
                <<versions[i],
                  CondaPackageNames(
                     Sorted({r.conda_name : r \in {x \in Range(related) :
                                                     x.pypi_version = versions[i]}}),
                     related, versions[i])>>]]

PyPIPackageLookup(chan, pypi_name, conda_versions) ==
    [format_version |-> "1.0", channel |-> chan, pypi_name |-> pypi_name,
     conda_versions |-> conda_versions]

\* create_pypi_lookup_files: per PyPI version the unique conda names
create_pypi_lookup_files(relations, chan) ==
    LET pypi_to_conda == generate_pypi_to_conda_lookups(relations)
    IN [pypi_name \in DOMAIN pypi_to_conda |->
          PyPIPackageLookup(chan, pypi_name,
             [i \in 1..Len(pypi_to_conda[pypi_name]) |->
                <<pypi_to_conda[pypi_name][i][1],
                  Unique(pypi_to_conda[pypi_name][i][2])>>])]

\* PyPIPackageLookup.to_json_bytes: the fields in declaration order
to_json_bytes(lookup) ==
    <<lookup.format_version, lookup.channel, lookup.pypi_name, lookup.conda_versions>>

\* _compute_file_hash with SHA-256 taken as collision free, but for a
\* constant digest
ConstantFileHash(data) == [sha256 |-> <<>>]
\* _compute_file_hash, SHA-256 taken as collision free
compute_file_hash(data) == [sha256 |-> data]

\* The Levenshtein distance of two character sequences
RECURSIVE Levenshtein(_, _)
Levenshtein(s, t) ==
    IF s = <<>> THEN Len(t)
    ELSE IF t = <<>> THEN Len(s)
    ELSE LET sub == Levenshtein(Tail(s), Tail(t)) + (IF Head(s) = Head(t) THEN 0 ELSE 1)
             del == Levenshtein(Tail(s), t) + 1
             ins == Levenshtein(s, Tail(t)) + 1
         IN IF sub <= del /\ sub <= ins THEN sub
            ELSE IF del <= ins THEN del ELSE ins

(***************************************************************************)
(* Object store gateway for the lookups (spec section 4.5; s3.py)          *)
(***************************************************************************)

list_pypi_lookup_files(store) == DOMAIN store
get_pypi_lookup_file_hash(store, pypi_name) ==
    IF pypi_name \in DOMAIN store THEN store[pypi_name].meta ELSE NoneOf
get_pypi_lookup_file(store, pypi_name) ==
    IF pypi_name \in DOMAIN store THEN Some(store[pypi_name].data) ELSE NoneOf
upload_pypi_lookup_file(store, pypi_name, data, content_sha256) ==
    [n \in DOMAIN store \cup {pypi_name} |->
        IF n = pypi_name THEN [data |-> data, meta |-> Some(content_sha256)]
        ELSE store[n]]
delete_pypi_lookup_file(store, pypi_name) ==
    [n \in DOMAIN store \ {pypi_name} |-> store[n]]

(***************************************************************************)
(* Incremental uploader (relations_updater.py)                             *)
(***************************************************************************)

\* _check_file_needs_update that reports every file as changed
NeedsUpdateAlways(store, pypi_name, new_hash) == TRUE
\* _check_file_needs_update that reports an object without metadata as changed
\* without comparing its bytes
NeedsUpdateIfNoMetadata(store, pypi_name, new_hash) ==
    LET existing_hash == get_pypi_lookup_file_hash(store, pypi_name)
    IN IF ~existing_hash.some THEN TRUE ELSE existing_hash.v # new_hash
\* _check_file_needs_update: the stored content hash of the HEAD request, or
\* the hash of the downloaded bytes of an object without metadata
check_file_needs_update(store, pypi_name, new_hash) ==
    LET existing_hash == get_pypi_lookup_file_hash(store, pypi_name)
        existing_data == get_pypi_lookup_file(store, pypi_name)
    IN IF ~existing_hash.some
       THEN IF ~existing_data.some THEN TRUE
            ELSE compute_file_hash(existing_data.v) # new_hash
       ELSE existing_hash.v # new_hash

\* Lines 219-230: the serialized lookups of a table with their hashes
serialized_with_hash(items, chan) ==
    LET lookups == create_pypi_lookup_files(from_conda_to_pypi_index(items, chan), chan)
    IN [pypi_name \in DOMAIN lookups |->
          [data |-> to_json_bytes(lookups[pypi_name]),
           hash |-> compute_file_hash(to_json_bytes(lookups[pypi_name]))]]

MaxRuns == 2
MaxIndexLen == 3

\* The names of the lookups of the run's table (serialized_with_hash.keys())
NewNames(u) == DOMAIN serialized_with_hash(u.table, CONDA_FORGE)

\* Line 331: the stored lookups that are not in the new table, all kept
StaleFilesNone(existing_lookup_files, new_names) == {}
\* Line 331: stale_files = existing_lookup_files - set(serialized_with_hash.keys())
StaleFiles(existing_lookup_files, new_names) == existing_lookup_files \ new_names

\* Lines 336-352: every delete future has completed
AfterDeletes(u) ==
    [u EXCEPT !.phase = "idle",
              !.status = IF u.delete_failed # {} THEN "error" ELSE "ok"]

\* Lines 313-352 with the failure of an upload not raised
AfterUploadsNoRaise(u) ==
    LET stale_files == StaleFiles(list_pypi_lookup_files(u.before), NewNames(u))
    IN IF stale_files # {}
       THEN [u EXCEPT !.phase = "delete", !.pending = stale_files]
       ELSE [u EXCEPT !.phase = "idle", !.status = "ok"]
\* Lines 313-334: every upload future has completed; a failed one is raised
\* again, otherwise the stale files are computed and their deletion submitted
AfterUploads(u) ==
    IF u.upload_failed # {}
    THEN [u EXCEPT !.phase = "idle", !.status = "error"]
    ELSE LET stale_files == StaleFiles(list_pypi_lookup_files(u.before), NewNames(u))
         IN IF stale_files # {}
            THEN [u EXCEPT !.phase = "delete", !.pending = stale_files]
            ELSE [u EXCEPT !.phase = "idle", !.status = "ok"]

\* Lines 298-328: files_to_upload is known; the uploads are submitted
AfterChecks(u) ==
    IF u.files_to_upload # {}
    THEN [u EXCEPT !.phase = "upload", !.pending = u.files_to_upload]
    ELSE AfterUploads(u)

\* generate_and_upload_pypi_lookups up to the submission of the checks
\* (lines 219-263), output_dir not given
StartRun(upload, skip_unchanged) ==
    /\ up.phase = "idle"
    /\ up.runs < MaxRuns
    /\ LET names == DOMAIN serialized_with_hash(index, channel)
           base == [UploaderIdle EXCEPT
                      !.runs = up.runs + 1, !.upload = upload,
                      !.skip_unchanged = skip_unchanged, !.table = index,
                      !.before = lookupStore,
                      !.prev = [status |-> up.status, upload |-> up.upload,
                                skip_unchanged |-> up.skip_unchanged,
                                table |-> up.table]]
           \* existing_lookup_files is list_pypi_lookup_files of the store at
           \* this point, which base.before keeps
           listed == base
       IN up' = IF ~upload THEN [base EXCEPT !.status = "ok"]
                ELSE IF skip_unchanged /\ names # {}
                THEN [listed EXCEPT !.phase = "check", !.pending = names]
                ELSE IF skip_unchanged THEN AfterChecks(listed)
                ELSE AfterChecks([listed EXCEPT !.files_to_upload = names])
    /\ UNCHANGED <<index, lookupStore>>
    /\ UNCHANGED <<pipeVars, artVars, shardVars, cacheVars, relVars, sessVars>>

\* Lines 266-290: one check future completes, with a result or an exception
Check(pypi_name, ok) ==
    /\ up.phase = "check"
    /\ pypi_name \in up.pending
    /\ LET info == serialized_with_hash(up.table, channel)[pypi_name]
           needs_update ==
               IF ok THEN check_file_needs_update(lookupStore, pypi_name, info.hash)
               ELSE TRUE
           u == [up EXCEPT !.pending = @ \ {pypi_name},
                           !.files_to_upload = IF needs_update THEN @ \cup {pypi_name}
                                               ELSE @,
                           !.check_failed = IF ok THEN @ ELSE @ \cup {pypi_name}]
       IN up' = IF u.pending = {} THEN AfterChecks(u) ELSE u
    /\ UNCHANGED <<index, lookupStore>>
    /\ UNCHANGED <<pipeVars, artVars, shardVars, cacheVars, relVars, sessVars>>

\* Lines 301-323: one upload future completes
Upload(pypi_name, ok) ==
    /\ up.phase = "upload"
    /\ pypi_name \in up.pending
    /\ LET info == serialized_with_hash(up.table, channel)[pypi_name]
           u == [up EXCEPT !.pending = @ \ {pypi_name},
                           !.uploaded = IF ok THEN @ \cup {pypi_name} ELSE @,
                           !.upload_failed = IF ok THEN @ ELSE @ \cup {pypi_name}]
       IN /\ lookupStore' =
               IF ok THEN upload_pypi_lookup_file(lookupStore, pypi_name,
                                                  info.data, info.hash)
               ELSE lookupStore
          /\ up' = IF u.pending = {} THEN AfterUploads(u) ELSE u
    /\ UNCHANGED index
    /\ UNCHANGED <<pipeVars, artVars, shardVars, cacheVars, relVars, sessVars>>

\* Lines 336-351: one delete future completes
Delete(pypi_name, ok) ==
    /\ up.phase = "delete"
    /\ pypi_name \in up.pending
    /\ LET u == [up EXCEPT !.pending = @ \ {pypi_name},
                           !.deleted = IF ok THEN @ \cup {pypi_name} ELSE @,
                           !.delete_failed = IF ok THEN @ ELSE @ \cup {pypi_name}]
       IN /\ lookupStore' = IF ok THEN delete_pypi_lookup_file(lookupStore, pypi_name)
                            ELSE lookupStore
          /\ up' = IF u.pending = {} THEN AfterDeletes(u) ELSE u
    /\ UNCHANGED index
    /\ UNCHANGED <<pipeVars, artVars, shardVars, cacheVars, relVars, sessVars>>

\* The canonical index entries the lookups are derived from
LookupEntry(conda_name, file, names, versions) ==
    MappingEntry(Some(names), versions, conda_name, file, NoneOf)
L1 == <<"h1", LookupEntry("ab", <<"a","b","-","1","-","0">> \o S_conda,
                          <<"ab">>, Some(("ab" :> "1")))>>
L2 == <<"h2", LookupEntry("b", <<"b","-","1","-","0">> \o S_conda,
                          <<"ab">>, Some(("ab" :> "1")))>>
L4 == <<"h4", LookupEntry("abx", <<"a","b","x","-","2","-","0">> \o S_conda,
                          <<"ab">>, Some(("ab" :> "2")))>>
L5 == <<"h5", LookupEntry("c", <<"c","-","2","-","0">> \o S_conda,
                          <<"c", "d">>, Some(("c" :> "2")))>>
EntryPool == {L1, L2, L4, L5}

\* A new artifact enters the canonical index between two uploader runs
AddArtifact(item) ==
    /\ up.phase = "idle"
    /\ Len(index) < MaxIndexLen
    /\ \A i \in 1..Len(index) : index[i][1] # item[1]
    /\ index' = Append(index, item)
    /\ UNCHANGED <<lookupStore, up>>
    /\ UNCHANGED <<pipeVars, artVars, shardVars, cacheVars, relVars, sessVars>>

\* The lookups of a table as an earlier run stored them, with the content
\* hash as metadata or, for objects of the time before the metadata, without
StoreOf(items, withMeta) ==
    LET info == serialized_with_hash(items, CONDA_FORGE)
    IN [n \in DOMAIN info |->
          [data |-> info[n].data,
           meta |-> IF withMeta THEN Some(info[n].hash) ELSE NoneOf]]

InitLookups ==
    /\ channel = CONDA_FORGE
    /\ channeldata = AllSubdirs
    /\ upstream = (S_main :> ("linux-64" :> D_empty @@ "noarch" :> D_empty))
                  @@ (S_dev :> ("linux-64" :> D_empty @@ "noarch" :> D_empty))
    /\ yank = {}
    /\ storeIndex = NoneOf
    /\ storeMappings = EmptyIndex
    /\ fs = [q \in {} |-> None]
    /\ names_mapping = EmptyIndex
    /\ producer = ProducerIdle
    /\ workers = [shard \in AllShards |-> WorkerIdle]
    /\ merger = MergerIdle
    /\ index \in {<<>>, <<L1>>, <<L1, L2>>, <<L5>>}
    /\ lookupStore \in {StoreOf(<<>>, TRUE), StoreOf(<<L1, L5>>, FALSE),
                        StoreOf(<<L5>>, TRUE)}
    /\ up = UploaderIdle
    /\ OthersIdle

NextLookups ==
    \/ \E upload \in BOOLEAN, skip_unchanged \in BOOLEAN : StartRun(upload, skip_unchanged)
    \/ \E pypi_name \in up.pending, ok \in BOOLEAN : Check(pypi_name, ok)
    \/ \E pypi_name \in up.pending, ok \in BOOLEAN : Upload(pypi_name, ok)
    \/ \E pypi_name \in up.pending, ok \in BOOLEAN : Delete(pypi_name, ok)
    \/ \E item \in EntryPool : AddArtifact(item)

SpecLookups == InitLookups /\ [][NextLookups]_vars

(***************************************************************************)
(* Properties of the lookups and of the incremental uploader               *)
(***************************************************************************)

\* The last run has ended without error and uploaded in incremental mode
IncrementalRunOk ==
    /\ up.phase = "idle" /\ up.status = "ok"
    /\ up.upload /\ up.skip_unchanged
\* ... and so did the run before it, on the same table
C6_TwoRuns ==
    /\ IncrementalRunOk
    /\ up.prev.status = "ok" /\ up.prev.upload /\ up.prev.skip_unchanged
    /\ up.prev.table = up.table

C7_I == SubSeq(up.table, 1, Len(up.table) - 1)
C7_New == entry_to_relations(up.table[Len(up.table)][1], up.table[Len(up.table)][2], channel)
C7_Case ==
    /\ IncrementalRunOk
    /\ Len(up.table) >= 1
    /\ Len(C7_New) = 1
    /\ \A r \in Range(from_conda_to_pypi_index(C7_I, channel)) :
         <<r.pypi_name, r.pypi_version>> # <<C7_New[1].pypi_name, C7_New[1].pypi_version>>
    /\ LET info == serialized_with_hash(C7_I, channel)
       IN /\ DOMAIN up.before = DOMAIN info
          /\ \A n \in DOMAIN info : up.before[n].data = info[n].data

C8_Candidates(relations, pypi_name, pypi_version) ==
    {r.conda_name : r \in {x \in Range(relations) :
        x.pypi_name = pypi_name /\ x.pypi_version = pypi_version}}
\* The candidate nearest to the PyPI name, the smallest of the nearest ones
C8_Best(pypi_name, candidates) ==
    LET d(c) == Levenshtein(Chars(c), Chars(pypi_name))
    IN CHOOSE c \in candidates :
         \A o \in candidates \ {c} : d(c) < d(o) \/ (d(c) = d(o) /\ StrLess(c, o))

\* C8: every conda_versions[version] of every lookup is one conda name, the
\* one nearest to the PyPI name by Levenshtein distance among the conda names
\* related to that (name, version), the lexicographically smallest on a tie.
C8_BestMatch ==
    LET relations == from_conda_to_pypi_index(index, channel)
        lookups == create_pypi_lookup_files(relations, channel)
    IN \A pypi_name \in DOMAIN lookups :
         \A i \in DOMAIN lookups[pypi_name].conda_versions :
            LET version == lookups[pypi_name].conda_versions[i][1]
                value == lookups[pypi_name].conda_versions[i][2]
            IN /\ Len(value) = 1
               /\ value[1] = C8_Best(pypi_name,
                                      C8_Candidates(relations, pypi_name, version))

C11_RunOk == up.runs > 0 /\ up.phase = "idle" /\ up.status = "ok" /\ up.upload

Contains(s, sub) ==
    \E i \in 0..(Len(s) - Len(sub)) : SubSeq(s, i + 1, i + Len(sub)) = sub

\* conda_forge.py:441-447, the substrings that make the streamed backend fall back
FallbackMarkers ==
    { <<"while", "scanning", "for", "the", "next", "token">>,
      <<"YAML">>,
      <<"Invalid", "data", "stream">>,
      <<"invalid", "header">>,
      <<"Truncated">> }

\* What a backend call can end with
OutInfo == [kind |-> "info"]
OutNone == [kind |-> "none"]
Raise(msg) == [kind |-> "raise", msg |-> msg]

\* str(e) of the exceptions the streamed backend is seen to raise
E_token == <<"while", "scanning", "for", "the", "next", "token", "found", "character">>
E_yaml == <<"YAML", "document", "is", "not", "valid">>
E_data == <<"Invalid", "data", "stream">>
E_header == <<"file", "could", "not", "be", "opened", "successfully", "invalid", "header">>
E_truncated == <<"Truncated", "bz2", "stream">>
E_lower == <<"truncated", "file">>
E_Header == <<"Invalid", "header">>
E_conn == <<"Connection", "reset", "by", "peer">>
E_empty == <<>>
StreamErrors == {E_token, E_yaml, E_data, E_header, E_truncated, E_lower,
                 E_Header, E_conn, E_empty}
E_value == <<"This", "function", "only", "supports", ".conda", "artifacts">>

\* download_and_extract_artifact (conda_forge.py:168-217): .conda only
download_and_extract_artifact(artifact, ext) ==
    IF ~EndsWith(artifact, S_conda) THEN Raise(E_value) ELSE ext.download

\* get_artifact_info that falls back to the full download on every exception
GetArtifactInfoAnyError(artifact, backend, ext) ==
    IF backend = DOWNLOAD
    THEN [ret |-> download_and_extract_artifact(artifact, ext), calls |-> <<"download">>]
    ELSE IF backend = STREAMED /\ EndsWith(artifact, S_tarbz2)
    THEN IF ext.streamed.kind # "raise"
         THEN [ret |-> ext.streamed, calls |-> <<"streamed">>]
         ELSE [ret |-> ext.full, calls |-> <<"streamed", "full_download">>]
    ELSE [ret |-> ext.json, calls |-> <<backend>>]

\* get_artifact_info (conda_forge.py:422-472).  ext gives what each backend
\* does when it is called: the streamed reader, the full download of a
\* .tar.bz2 (download_and_extract_tar_bz2_artifact), the .conda download and
\* conda_forge_metadata's get_artifact_info_as_json.  calls lists the backends
\* that were invoked, in order.
get_artifact_info(artifact, backend, ext) ==
    IF backend = DOWNLOAD
    THEN [ret |-> download_and_extract_artifact(artifact, ext), calls |-> <<"download">>]
    ELSE IF backend = STREAMED /\ EndsWith(artifact, S_tarbz2)
    THEN IF ext.streamed.kind # "raise"
         THEN [ret |-> ext.streamed, calls |-> <<"streamed">>]
         ELSE IF \E err \in FallbackMarkers : Contains(ext.streamed.msg, err)
         THEN [ret |-> ext.full, calls |-> <<"streamed", "full_download">>]
         ELSE [ret |-> ext.streamed, calls |-> <<"streamed">>]
    ELSE [ret |-> ext.json, calls |-> <<backend>>]

BackendOutcomes == {OutInfo, OutNone, Raise(E_conn)}
ExtOutcomes ==
    [streamed : {OutInfo, OutNone} \cup {Raise(m) : m \in StreamErrors},
     full : BackendOutcomes, download : BackendOutcomes, json : BackendOutcomes]

\* One call of get_artifact_info
GetArtifactInfo(artifact, backend, ext) ==
    /\ art' = [call |-> "get_artifact_info", artifact |-> artifact,
               backend |-> backend, ext |-> ext,
               out |-> get_artifact_info(artifact, backend, ext)]
    /\ UNCHANGED <<pipeVars, lookVars, shardVars, cacheVars, relVars, sessVars>>

(***************************************************************************)
(* Mapping extraction (artifact.py)                                        *)
(*                                                                         *)
(* A Python value of the rendered recipe is tagged with its type: None, a  *)
(* str (a sequence of characters), a list or a dict.                       *)
(***************************************************************************)

PyNone == [t |-> "none"]
PyStr(v) == [t |-> "str", v |-> v]
PyList(v) == [t |-> "list", v |-> v]
\* A source dict: d.get("url") is url (PyNone when the key is not there);
\* other says whether the dict has keys besides url
PyDict(url, other) == [t |-> "dict", url |-> url, other |-> other]

\* bool(x)
Truthy(x) ==
    CASE x.t = "none" -> FALSE
      [] x.t = "str" -> x.v # <<>>
      [] x.t = "list" -> x.v # <<>>
      [] x.t = "dict" -> x.url.t # "none" \/ x.other

HTTPS == <<"h", "t", "t", "p", "s", ":", "/", "/">>
PACKAGES == <<"/", "p", "a", "c", "k", "a", "g", "e", "s", "/">>
PYPI_IO == HTTPS \o <<"p", "y", "p", "i", ".", "i", "o">> \o PACKAGES
PYPI_ORG == HTTPS \o <<"p", "y", "p", "i", ".", "o", "r", "g">> \o PACKAGES
PYPI_PYTHON_ORG == HTTPS \o <<"p", "y", "p", "i", ".", "p", "y", "t", "h", "o", "n", ".", "o", "r", "g">> \o PACKAGES

\* artifact.py:30-32, for one element of urls
StartsWithPypi(url) ==
    \/ StartsWith(url, PYPI_IO)
    \/ StartsWith(url, PYPI_ORG)
    \/ StartsWith(url, PYPI_PYTHON_ORG)

\* check_if_is_direct_url (artifact.py:19-37).  For a str, urls = list(url)
\* is the list of its characters.
check_if_is_direct_url(url) ==
    IF ~Truthy(url) THEN FALSE
    ELSE LET urls == IF url.t # "str" THEN url.v
                     ELSE [i \in 1..Len(url.v) |-> <<url.v[i]>>]
         IN ~(\A i \in 1..Len(urls) : StartsWithPypi(urls[i]))

\* extract_artifact_mapping (artifact.py:83-114).  artifact.pypi is what
\* get_pypi_names_and_version finds in artifact["files"], names in order.
extract_artifact_mapping(artifact, package_name) ==
    LET pypi_names_and_versions == artifact.pypi
        source0 == artifact.source
        isList == Truthy(source0) /\ source0.t = "list"
        source == IF isList THEN source0.v[1] ELSE source0
        is_direct_url == IF isList THEN check_if_is_direct_url(source.url)
                         ELSE FALSE
        direct_url == IF ~is_direct_url \/ ~Truthy(source) THEN NoneOf
                      ELSE IF source.url.t = "str" THEN Some(<<source.url.v>>)
                      ELSE Some(source.url.v)
    IN MappingEntry(IF pypi_names_and_versions.names # <<>>
                    THEN Some(pypi_names_and_versions.names) ELSE NoneOf,
                    IF pypi_names_and_versions.names # <<>>
                    THEN Some(pypi_names_and_versions.versions) ELSE NoneOf,
                    artifact.name, package_name, direct_url)

\* One call of extract_artifact_mapping
ExtractArtifactMapping(artifact, package_name) ==
    /\ art' = [call |-> "extract_artifact_mapping", artifact |-> artifact,
               package_name |-> package_name,
               out |-> extract_artifact_mapping(artifact, package_name)]
    /\ UNCHANGED <<pipeVars, lookVars, shardVars, cacheVars, relVars, sessVars>>

\* The source URLs of the recipes
U_github == HTTPS \o <<"g", "i", "t", "h", "u", "b", ".", "c", "o", "m", "/", "f">>
U_gitlab == HTTPS \o <<"g", "i", "t", "l", "a", "b", ".", "c", "o", "m", "/", "f">>
U_io == PYPI_IO \o <<"f">>
U_org == PYPI_ORG \o <<"f">>
U_python_org == PYPI_PYTHON_ORG \o <<"f">>
UrlValues ==
    {PyNone, PyStr(<<>>), PyList(<<>>),
     PyStr(U_github), PyStr(U_io), PyStr(U_org), PyStr(U_python_org),
     PyList(<<U_github>>), PyList(<<U_io>>), PyList(<<U_github, U_gitlab>>),
     PyList(<<U_io, U_org>>), PyList(<<U_io, U_github>>)}
SourceDicts == {PyDict(url, TRUE) : url \in UrlValues} \cup {PyDict(PyNone, FALSE)}
Sources ==
    {PyNone, PyList(<<>>)} \cup SourceDicts
        \cup {PyList(<<d>>) : d \in SourceDicts}
        \cup {PyList(<<d, PyDict(PyStr(U_github), TRUE)>>) : d \in SourceDicts}
PypiFound == {[names |-> <<>>, versions |-> <<>>],
              [names |-> <<"foo">>, versions |-> ("foo" :> "1")]}
Artifacts == [name : {"foo"}, pypi : PypiFound, source : Sources]

\* The pipeline and the uploader at rest
PipelineIdle ==
    /\ channel = CONDA_FORGE
    /\ channeldata = AllSubdirs
    /\ upstream = (S_main :> ("linux-64" :> D_empty @@ "noarch" :> D_empty))
                  @@ (S_dev :> ("linux-64" :> D_empty @@ "noarch" :> D_empty))
    /\ yank = {}
    /\ storeIndex = NoneOf
    /\ storeMappings = EmptyIndex
    /\ fs = [q \in {} |-> None]
    /\ names_mapping = EmptyIndex
    /\ producer = ProducerIdle
    /\ workers = [shard \in AllShards |-> WorkerIdle]
    /\ merger = MergerIdle
LookupsIdle == index = <<>> /\ lookupStore = EmptyStore /\ up = UploaderIdle

InitArtifact ==
    /\ PipelineIdle /\ LookupsIdle
    /\ art = ArtIdle /\ proc = ProcIdle
    /\ cacheIndex = Absent /\ cacheMeta = Absent
    /\ fetch = FetchIdle
    /\ RestIdle

(***************************************************************************)
(* utils.normalize                                                         *)
(***************************************************************************)

MaxNameLen == 3

\* The characters of a name: an uppercase letter, a lowercase letter and
\* the three separators
NameChars == {"A", "a", "-", "_", "."}
Separators == {"-", "_", "."}
Names == UNION {[1..n -> NameChars] : n \in 0..MaxNameLen}

\* str.lower()
lower(c) == IF c = "A" THEN "a" ELSE c

\* re.sub(r"[-_.]", "-", name): every separator replaced by itself
SubEachSeparator(name) ==
    [i \in 1..Len(name) |-> IF name[i] \in Separators THEN "-" ELSE name[i]]

\* re.sub(r"[-_.]+", "-", name): every maximal run of separators replaced
RECURSIVE SubSeparatorRuns(_)
SubSeparatorRuns(name) ==
    IF name = <<>> THEN <<>>
    ELSE IF Head(name) \notin Separators
    THEN <<Head(name)>> \o SubSeparatorRuns(Tail(name))
    ELSE IF Len(name) > 1 /\ name[2] \in Separators
    THEN SubSeparatorRuns(Tail(name))
    ELSE <<"-">> \o SubSeparatorRuns(Tail(name))

\* utils.normalize
normalize(name) ==
    LET subbed == SubSeparatorRuns(name)
    IN [i \in 1..Len(subbed) |-> lower(subbed[i])]

\* A call of normalize, and a second call on what the first returned
Normalize(name) ==
    /\ art' = [call |-> "normalize", name |-> name, ret |-> normalize(name),
               again |-> normalize(normalize(name))]
    /\ UNCHANGED <<pipeVars, lookVars, shardVars, cacheVars, relVars, sessVars>>

NextArtifact ==
    \/ \E name \in Names : Normalize(name)
    \/ \E artifact \in {F_m, F_n}, backend \in {OCI, STREAMED, DOWNLOAD},
          ext \in ExtOutcomes : GetArtifactInfo(artifact, backend, ext)
    \/ \E artifact \in Artifacts, package_name \in {F_m, F_n} :
         ExtractArtifactMapping(artifact, package_name)

SpecArtifact == InitArtifact /\ [][NextArtifact]_vars

\* A message of the fallback-triggering set: a YAML tokenizer error ("while
\* scanning for the next token", or any message naming YAML), "Invalid data
\* stream", "invalid header" or "Truncated"
C12_Triggers(msg) ==
    \/ Contains(msg, <<"while", "scanning", "for", "the", "next", "token">>)
    \/ Contains(msg, <<"YAML">>)
    \/ Contains(msg, <<"Invalid", "data", "stream">>)
    \/ Contains(msg, <<"invalid", "header">>)
    \/ Contains(msg, <<"Truncated">>)
C12_StreamedRaised ==
    /\ art.call = "get_artifact_info"
    /\ art.backend = STREAMED
    /\ EndsWith(art.artifact, S_tarbz2)
    /\ art.ext.streamed.kind = "raise"

\* C12: for a .tar.bz2 asked of the streamed backend, an exception of the
\* fallback-triggering set makes get_artifact_info call the full download
\* exactly once and return what it returns; any other exception propagates
\* and no other backend is called.
C12_FallbackSafety ==
    C12_StreamedRaised =>
       IF C12_Triggers(art.ext.streamed.msg)
       THEN /\ art.out.calls = <<"streamed", "full_download">>
            /\ art.out.ret = art.ext.full
       ELSE /\ art.out.calls = <<"streamed">>
            /\ art.out.ret = Raise(art.ext.streamed.msg)

C12_Witness ==
    /\ C12_StreamedRaised
    /\ art.ext.streamed.msg = E_header
    /\ "full_download" \in Range(art.out.calls)
    /\ art.out.ret = OutNone

\* The first source element of the rendered recipe and its URLs
C13_First(source) ==
    IF source.t = "list" /\ source.v # <<>> THEN source.v[1]
    ELSE IF source.t = "dict" THEN source ELSE PyDict(PyNone, FALSE)
C13_Urls(source) ==
    LET url == C13_First(source).url
    IN IF url.t = "str" /\ url.v # <<>> THEN <<url.v>>
       ELSE IF url.t = "list" THEN url.v ELSE <<>>

\* C13: the extracted entry has direct_url, equal to the list of the source
\* URLs, exactly when the first source element has a url and none of its URLs
\* begins with one of the three PyPI package prefixes.
C13_DirectUrlIffNoPypiUrl ==
    art.call = "extract_artifact_mapping" =>
       LET urls == C13_Urls(art.artifact.source)
       IN /\ art.out.direct_url.some <=>
               (urls # <<>> /\ \A i \in 1..Len(urls) : ~StartsWithPypi(urls[i]))
          /\ art.out.direct_url.some => art.out.direct_url.v = urls

\* The records of a shard that are new to the snapshot
C14_New(shard) ==
    {r \in RecordsOf(shard[1]) :
        /\ StartsWith(r[2], shard[2])
        /\ ~Falsy(ShaOf(shard[1], r))
        /\ ShaOf(shard[1], r) \notin DOMAIN Snapshot}

MaxWorkerRuns == 2

\* The chunks json.dump writes for a dict
JsonChunks(mapping) ==
    IF DOMAIN mapping = {} THEN << <<"{}">> >>
    ELSE LET keys == SetToSeq(DOMAIN mapping)
         IN << <<"{">> >> \o [i \in 1..Len(keys) |-> <<keys[i], mapping[keys[i]]>>]
                         \o << <<"}">> >>
\* The content of a file of which only these chunks are on disk
Torn(written) == [torn |-> TRUE, written |-> written]
Complete(content) == "torn" \notin DOMAIN content

PartialPath(shard) == OUTPUT \o <<channel, PartialJsonName(shard[1], shard[2])>>

\* Lines 161-284: the worker up to the point where the partial index is
\* about to be written
WorkerBegin(shard, upload) ==
    /\ proc.pc \in {"idle", "done", "killed", "error"}
    /\ proc.runs < MaxWorkerRuns
    /\ LET subdir == shard[1]
           letter == shard[2]
           index_location == OUTPUT_INDEX \o <<channel, IndexJson>>
           repodatas == get_all_packages_by_subdir(channel, subdir, upstream)
           scan == WorkerScan(SetToSeq(DOMAIN repodatas), repodatas, letter,
                              fs[index_location], channel,
                              [error |-> None, all_packages |-> {}, warned |-> {}])
           fail(e) == /\ proc' = [pc |-> "error", runs |-> proc.runs + 1,
                                  shard |-> shard, error |-> e]
                      /\ UNCHANGED <<names_mapping, storeMappings>>
       IN IF ~FileExists(fs, index_location)
          THEN fail("FileNotFoundError")
          ELSE IF scan.error # None
          THEN fail(scan.error)
          ELSE \E outcomes \in [scan.all_packages -> Outcomes] :
                 LET mapping == WorkerResults(scan.all_packages, outcomes,
                                              repodatas, names_mapping)
                 IN \E uploadOk \in SUBSET (DOMAIN mapping) :
                      /\ names_mapping' = mapping
                      /\ storeMappings' =
                           IF upload
                           THEN [h \in DOMAIN storeMappings \cup uploadOk |->
                                   IF h \in uploadOk THEN mapping[h]
                                   ELSE storeMappings[h]]
                           ELSE storeMappings
                      /\ proc' = [pc |-> "open", runs |-> proc.runs + 1,
                                  shard |-> shard, error |-> None]
    /\ UNCHANGED <<channel, channeldata, upstream, yank, storeIndex, fs,
                   producer, workers, merger>>
    /\ UNCHANGED <<lookVars, artVars, cacheVars, relVars, sessVars>>

\* Lines 290-295: os.makedirs and open(..., mode="w"), which creates the file
\* or truncates the one that is there
WorkerOpen ==
    /\ proc.pc = "open"
    /\ fs' = WriteFile(fs, PartialPath(proc.shard), Torn(<<>>))
    /\ proc' = [pc |-> "dump", runs |-> proc.runs, shard |-> proc.shard,
                error |-> None, todo |-> JsonChunks(names_mapping)]
    /\ UNCHANGED <<channel, channeldata, upstream, yank, storeIndex, storeMappings,
                   names_mapping, producer, workers, merger>>
    /\ UNCHANGED <<lookVars, artVars, cacheVars, relVars, sessVars>>

\* Line 296: json.dump; one more chunk reaches the disk
WorkerWrite ==
    /\ proc.pc = "dump"
    /\ proc.todo # <<>>
    /\ LET path == PartialPath(proc.shard)
           written == Append(fs[path].written, Head(proc.todo))
       IN fs' = WriteFile(fs, path, IF Tail(proc.todo) = <<>> THEN names_mapping
                                    ELSE Torn(written))
    /\ proc' = [proc EXCEPT !.todo = Tail(@)]
    /\ UNCHANGED <<channel, channeldata, upstream, yank, storeIndex, storeMappings,
                   names_mapping, producer, workers, merger>>
    /\ UNCHANGED <<lookVars, artVars, cacheVars, relVars, sessVars>>

\* End of the with block: the file is closed and main returns
WorkerClose ==
    /\ proc.pc = "dump"
    /\ proc.todo = <<>>
    /\ proc' = [pc |-> "done", runs |-> proc.runs, shard |-> proc.shard,
                error |-> None]
    /\ UNCHANGED <<channel, channeldata, upstream, yank, storeIndex, storeMappings,
                   fs, names_mapping, producer, workers, merger>>
    /\ UNCHANGED <<lookVars, artVars, cacheVars, relVars, sessVars>>

\* The process is cancelled or crashes between two statements
WorkerKill ==
    /\ proc.pc \in {"open", "dump"}
    /\ proc' = [pc |-> "killed", runs |-> proc.runs, shard |-> proc.shard,
                error |-> None]
    /\ UNCHANGED <<channel, channeldata, upstream, yank, storeIndex, storeMappings,
                   fs, names_mapping, producer, workers, merger>>
    /\ UNCHANGED <<lookVars, artVars, cacheVars, relVars, sessVars>>

\* The state a producer run leaves: the snapshot on disk, and possibly the
\* partial index of an earlier run of the linux-64@n worker
InitShard ==
    /\ channel \in {CONDA_FORGE, TANGO_CONTROLS}
    /\ channeldata = IF support_channeldata(channel) THEN AllSubdirs ELSE {}
    /\ \E lin \in {D_two, D_nosha}, noa \in {D_empty, D_one} :
         upstream = (S_main :> ("linux-64" :> lin @@ "noarch" :> noa))
                    @@ (S_dev :> ("linux-64" :> D_empty @@ "noarch" :> D_empty))
    /\ yank = {}
    /\ storeIndex \in {NoneOf, Some(Entry_h2)}
    /\ storeMappings = EmptyIndex
    /\ \E earlier \in {[q \in {} |-> None],
                       (PartialPath(ShardString("linux-64", <<"n">>)) :> LeftoverPartial)} :
         fs = WriteFile(earlier, OUTPUT_INDEX \o <<channel, IndexJson>>,
                        IndexOrEmpty(storeIndex))
    /\ names_mapping = EmptyIndex
    /\ producer = ProducerIdle
    /\ workers = [shard \in AllShards |-> WorkerIdle]
    /\ merger = MergerIdle
    /\ LookupsIdle
    /\ art = ArtIdle /\ proc = ProcIdle
    /\ cacheIndex = Absent /\ cacheMeta = Absent
    /\ fetch = FetchIdle
    /\ RestIdle

NextShard ==
    \/ \E shard \in AllShards, upload \in BOOLEAN : WorkerBegin(shard, upload)
    \/ WorkerOpen
    \/ WorkerWrite
    \/ WorkerClose
    \/ WorkerKill

SpecShard == InitShard /\ [][NextShard]_vars

\* C15: at every point of a worker run, killed or not, the partial-index file
\* of a shard is absent or holds a complete partial index.
C15_PartialFileAbsentOrComplete ==
    \A shard \in AllShards :
       FileExists(fs, PartialPath(shard)) => Complete(fs[PartialPath(shard)])

(***************************************************************************)
(* Explorer index cache (index_cache.fetch_channel_index_cached), statement *)
(* by statement where it writes                                            *)
(***************************************************************************)

MaxFetches == 2

\* A file of the cache directory: absent, or there with a content (the parsed
\* JSON once the file is complete, Torn(...) while it is being written)
File(content) == [exists |-> TRUE, content |-> content]
Readable(file) == file.exists /\ Complete(file.content)

\* The metadata dict of save_cached_metadata (lines 99-103)
MetaDict(etag, last_modified) ==
    [k \in (IF Falsy(etag) THEN {} ELSE {"etag"})
            \cup (IF Falsy(last_modified) THEN {} ELSE {"last_modified"}) |->
        IF k = "etag" THEN etag ELSE last_modified]

\* load_cached_metadata (lines 65-83): {} when the file is missing or does
\* not parse
load_cached_metadata(file) ==
    IF Readable(file) THEN file.content ELSE MetaDict(None, None)

\* Lines 143-147: the conditional request headers
Headers(cached_metadata) ==
    (IF "etag" \in DOMAIN cached_metadata THEN {"If-None-Match"} ELSE {})
    \cup (IF "last_modified" \in DOMAIN cached_metadata
          THEN {"If-Modified-Since"} ELSE {})

\* What session.get ends with: a RequestException, or a response
NetworkError == [kind |-> "error"]
Response(status, data, etag, last_modified) ==
    [kind |-> "http", status |-> status, data |-> data,
     etag |-> etag, last_modified |-> last_modified]
I_one == ("h1" :> "e1")
I_two == ("h1" :> "e1") @@ ("h2" :> "e2")
Responses(headers) ==
    {NetworkError, Response(404, None, None, None), Response(500, None, None, None)}
    \cup (IF headers # {} THEN {Response(304, None, None, None)} ELSE {})
    \cup {Response(200, data, etag, last_modified) :
            data \in {I_one, I_two}, etag \in {None, "e1", "e2"},
            last_modified \in {None, "t1"}}

\* The validators and the body of a 200 response
Sent(resp) ==
    IF resp.kind = "http" /\ resp.status = 200
    THEN {<<MetaDict(resp.etag, resp.last_modified), resp.data>>}
    ELSE {}

Returned(idx, status) == [kind |-> "return", index |-> idx, status |-> status]
Propagated == [kind |-> "exception"]

\* Lines 240-270: the handler of requests.RequestException
StaleFallback(index_file) ==
    IF index_file.exists /\ Complete(index_file.content)
    THEN Returned(Some(index_file.content), "cached (stale, network error)")
    ELSE Returned(NoneOf, "failed")

\* Lines 155-206 for every answer but a usable 200: what the call returns.
\* jsonErrorCaught: response.json() of a body that is not JSON raises
\* requests' JSONDecodeError, which is a RequestException only in the newer
\* releases of requests.
AnswerWithoutWrite(resp, index_file, jsonErrorCaught) ==
    IF resp.kind = "error" THEN StaleFallback(index_file)
    ELSE IF resp.status = 304 /\ Readable(index_file)
    THEN Returned(Some(index_file.content), "cached (up to date)")
    ELSE IF resp.status = 404 THEN Returned(NoneOf, "not found")
    ELSE IF resp.status = 500 THEN StaleFallback(index_file)   \* raise_for_status
    ELSE \* a 304 without usable cache file falls through to response.json()
         IF jsonErrorCaught THEN StaleFallback(index_file) ELSE Propagated

WritingPcs == {"unlink_index", "unlink_meta", "open_index", "dump_index",
               "open_meta", "dump_meta"}

\* Lines 133-211: the metadata is loaded, the request is made, and every
\* answer but a 200 is dealt with; after a 200 the body is parsed
FetchBegin(resp, jsonErrorCaught) ==
    /\ fetch.pc \in {"idle", "done", "killed"}
    /\ fetch.calls < MaxFetches
    /\ LET headers == Headers(load_cached_metadata(cacheMeta))
           base == [calls |-> fetch.calls + 1, resp |-> resp, headers |-> headers,
                    before |-> [index |-> cacheIndex, meta |-> cacheMeta],
                    kills |-> fetch.kills, others |-> fetch.others,
                    sent |-> fetch.sent \cup Sent(resp)]
       IN /\ resp \in Responses(headers)
          /\ fetch' = IF resp.kind = "http" /\ resp.status = 200
                      THEN base @@ [pc |-> "unlink_index"]
                      ELSE base @@ [pc |-> "done",
                                    result |-> AnswerWithoutWrite(resp, cacheIndex,
                                                                  jsonErrorCaught)]
    /\ UNCHANGED <<cacheIndex, cacheMeta>>
    /\ UNCHANGED <<pipeVars, lookVars, artVars, shardVars, relVars, sessVars>>

\* Lines 215-217: the old cache file is removed
FetchUnlinkIndex ==
    /\ fetch.pc = "unlink_index"
    /\ cacheIndex' = Absent
    /\ fetch' = [fetch EXCEPT !.pc = "unlink_meta"]
    /\ UNCHANGED cacheMeta
    /\ UNCHANGED <<pipeVars, lookVars, artVars, shardVars, relVars, sessVars>>

\* Lines 218-219: the old sidecar is removed
FetchUnlinkMeta ==
    /\ fetch.pc = "unlink_meta"
    /\ cacheMeta' = Absent
    /\ fetch' = [fetch EXCEPT !.pc = "open_index"]
    /\ UNCHANGED cacheIndex
    /\ UNCHANGED <<pipeVars, lookVars, artVars, shardVars, relVars, sessVars>>

\* Line 225: open(index_path, "w"); an OSError is logged (lines 235-236) and
\* the downloaded index is returned without a cache
FetchOpenIndex(ok) ==
    /\ fetch.pc = "open_index"
    /\ IF ok
       THEN /\ cacheIndex' = File(Torn(<<>>))
            /\ fetch' = [fetch EXCEPT !.pc = "dump_index"]
                          @@ [todo |-> JsonChunks(fetch.resp.data)]
       ELSE /\ cacheIndex' = cacheIndex
            /\ fetch' = [fetch EXCEPT !.pc = "done"]
                          @@ [result |-> Returned(Some(fetch.resp.data), "downloaded")]
    /\ UNCHANGED cacheMeta
    /\ UNCHANGED <<pipeVars, lookVars, artVars, shardVars, relVars, sessVars>>

\* Line 226: json.dump(data, f); one more chunk reaches the disk
FetchDumpIndex ==
    /\ fetch.pc = "dump_index"
    /\ LET written == Append(cacheIndex.content.written, Head(fetch.todo))
           last == Tail(fetch.todo) = <<>>
       IN /\ cacheIndex' = File(IF last THEN fetch.resp.data ELSE Torn(written))
          /\ fetch' = [fetch EXCEPT !.pc = IF last THEN "open_meta" ELSE "dump_index",
                                    !.todo = Tail(@)]
    /\ UNCHANGED cacheMeta
    /\ UNCHANGED <<pipeVars, lookVars, artVars, shardVars, relVars, sessVars>>

\* save_cached_metadata, line 106: open(metadata_path, "w")
FetchOpenMeta ==
    /\ fetch.pc = "open_meta"
    /\ cacheMeta' = File(Torn(<<>>))
    /\ fetch' = [fetch EXCEPT !.pc = "dump_meta",
                              !.todo = JsonChunks(MetaDict(fetch.resp.etag,
                                                           fetch.resp.last_modified))]
    /\ UNCHANGED cacheIndex
    /\ UNCHANGED <<pipeVars, lookVars, artVars, shardVars, relVars, sessVars>>

\* save_cached_metadata, line 107, then line 238: the index is returned
FetchDumpMeta ==
    /\ fetch.pc = "dump_meta"
    /\ LET written == Append(cacheMeta.content.written, Head(fetch.todo))
           last == Tail(fetch.todo) = <<>>
       IN /\ cacheMeta' = File(IF last THEN MetaDict(fetch.resp.etag,
                                                     fetch.resp.last_modified)
                               ELSE Torn(written))
          /\ fetch' = IF last
                      THEN [fetch EXCEPT !.pc = "done", !.todo = <<>>]
                             @@ [result |-> Returned(Some(fetch.resp.data), "downloaded")]
                      ELSE [fetch EXCEPT !.todo = Tail(@)]
    /\ UNCHANGED cacheIndex
    /\ UNCHANGED <<pipeVars, lookVars, artVars, shardVars, relVars, sessVars>>

\* The process is killed while it stores the response
FetchKill ==
    /\ fetch.pc \in WritingPcs
    /\ fetch' = [fetch EXCEPT !.pc = "killed", !.kills = @ + 1]
    /\ UNCHANGED <<cacheIndex, cacheMeta>>
    /\ UNCHANGED <<pipeVars, lookVars, artVars, shardVars, relVars, sessVars>>

\* The cache directory is empty or holds what an earlier fetch stored
InitCache ==
    /\ PipelineIdle /\ LookupsIdle
    /\ art = ArtIdle /\ proc = ProcIdle
    /\ \E stored \in BOOLEAN :
         /\ cacheIndex = IF stored THEN File(I_one) ELSE Absent
         /\ cacheMeta = IF stored THEN File(MetaDict("e1", "t1")) ELSE Absent
         /\ fetch = [FetchIdle EXCEPT !.sent =
                       IF stored THEN {<<MetaDict("e1", "t1"), I_one>>} ELSE {}]
    /\ RestIdle

NextCache ==
    \/ \E resp \in Responses({"If-None-Match"}), jsonErrorCaught \in BOOLEAN :
         FetchBegin(resp, jsonErrorCaught)
    \/ FetchUnlinkIndex
    \/ FetchUnlinkMeta
    \/ \E ok \in BOOLEAN : FetchOpenIndex(ok)
    \/ FetchDumpIndex
    \/ FetchOpenMeta
    \/ FetchDumpMeta
    \/ FetchKill

SpecCache == InitCache /\ [][NextCache]_vars

\* C16: from the moment a 200 response is being stored, whether the call is
\* still running, was killed or has returned, the cache file is the complete
\* previous file or the complete new one.
C16_CacheWriteAtomic ==
    (fetch.pc # "idle" /\ fetch.resp.kind = "http" /\ fetch.resp.status = 200)
    => \/ cacheIndex = fetch.before.index
       \/ cacheIndex = File(fetch.resp.data)

\* C17: a call that sent conditional headers and was answered 304 returns the
\* cached index with status "cached (up to date)" and leaves the cache file
\* and the sidecar as they were.
C17_NotModifiedUsesCache ==
    ( /\ fetch.pc = "done"
      /\ fetch.resp.kind = "http" /\ fetch.resp.status = 304
      /\ fetch.headers # {} )
    => /\ fetch.before.index.exists
       /\ fetch.result = Returned(Some(fetch.before.index.content),
                                  "cached (up to date)")
       /\ cacheIndex = fetch.before.index
       /\ cacheMeta = fetch.before.meta

\* C18: after a network error the call returns the cached index as stale when
\* the cache file exists and (no index, "failed") otherwise; after a 404 it
\* returns (no index, "not found"); the cache file and the sidecar are left
\* as they were.
C18_NetworkErrorAndNotFound ==
    /\ (fetch.pc = "done" /\ fetch.resp.kind = "error")
       => /\ fetch.result =
               IF fetch.before.index.exists
               THEN Returned(Some(fetch.before.index.content),
                             "cached (stale, network error)")
               ELSE Returned(NoneOf, "failed")
          /\ cacheIndex = fetch.before.index
          /\ cacheMeta = fetch.before.meta
    /\ (fetch.pc = "done" /\ fetch.resp.kind = "http" /\ fetch.resp.status = 404)
       => /\ fetch.result = Returned(NoneOf, "not found")
          /\ cacheIndex = fetch.before.index
          /\ cacheMeta = fetch.before.meta

\* The records whose sha256 has an entry without PyPI names in the snapshot
C19_Requeued(subdir) ==
    {r \in RecordsOf(subdir) :
        /\ ~Falsy(ShaOf(subdir, r))
        /\ ShaOf(subdir, r) \in DOMAIN Snapshot
        /\ ~Snapshot[ShaOf(subdir, r)].pypi_normalized_names.some}

\* C19: with check_if_pypi_exists, an artifact whose entry has no PyPI names
\* gets its shard printed, the worker of that shard fetches it again, and
\* after the merge its entry carries the names found in it, or none if there
\* are none to find.
C19_RequeuedAndRefreshed ==
    (producer.status = "done" /\ producer.check_if_pypi_exists) =>
      \A subdir \in producer.subdirs : \A r \in C19_Requeued(subdir) :
        LET shard == ShardString(subdir, <<Head(r[2])>>)
            sha == ShaOf(subdir, r)
        IN /\ shard \in producer.printed
           /\ workers[shard].status = "done" => r[2] \in workers[shard].fetched
           /\ ( /\ workers[shard].status = "done"
                /\ shard \in merger.after
                /\ merger.status # "idle" /\ merger.upload )
              => /\ storeIndex.some
                 /\ sha \in DOMAIN storeIndex.v
                 /\ storeIndex.v[sha].pypi_normalized_names.some
                      <=> \E job \in DOMAIN workers[shard].outcomes :
                            /\ job[1] = r[2]
                            /\ workers[shard].outcomes[job] = "artifact"
                            /\ HasPypi(r[2])

\* C20: no step of the producer, a worker or the merger changes the
\* conda_name or the package_name the canonical index stores for a sha256.
C20_Step ==
    \A h \in DOMAIN IndexOrEmpty(storeIndex) :
       h \in DOMAIN IndexOrEmpty(storeIndex') =>
          /\ storeIndex'.v[h].conda_name = storeIndex.v[h].conda_name
          /\ storeIndex'.v[h].package_name = storeIndex.v[h].package_name
MaxBuilds == 2
MaxClock == 1

QUOTE == "QUOTE"
BS == "BS"
LF == "LF"
LS == "LS"
HexChars == {"a", "b", "c", "1", "2", "3"}

\* The JSON escape of one character: pydantic's serializer escapes the
\* quote, the backslash and the control characters, and writes every other
\* character, U+2028 included, as it is
JsonEscapeChar(c) ==
    CASE c = QUOTE -> <<BS, QUOTE>>
      [] c = BS -> <<BS, BS>>
      [] c = LF -> <<BS, "n">>
      [] OTHER -> <<c>>
RECURSIVE JsonEscape(_)
JsonEscape(s) ==
    IF s = <<>> THEN <<>> ELSE JsonEscapeChar(Head(s)) \o JsonEscape(Tail(s))
JsonString(s) == <<QUOTE>> \o JsonEscape(s) \o <<QUOTE>>

\* A JSON array of strings without its brackets
RECURSIVE JsonStrings(_)
JsonStrings(items) ==
    IF items = <<>> THEN <<>>
    ELSE IF Len(items) = 1 THEN JsonString(Head(items))
    ELSE JsonString(Head(items)) \o <<",">> \o JsonStrings(Tail(items))

\* The keys of the string fields of PackageRelation, in declaration order
StringKeys ==
    <<"conda_name:", "conda_filename:", "conda_hash:", "pypi_name:",
      "pypi_version:", "channel:">>

\* PackageRelation.model_dump_json(): the fields in declaration order
model_dump_json(relation) ==
    <<"{">>
    \o <<"conda_name:">> \o JsonString(relation.conda_name) \o <<",">>
    \o <<"conda_filename:">> \o JsonString(relation.conda_filename) \o <<",">>
    \o <<"conda_hash:">> \o JsonString(relation.conda_hash) \o <<",">>
    \o <<"pypi_name:">> \o JsonString(relation.pypi_name) \o <<",">>
    \o <<"pypi_version:">> \o JsonString(relation.pypi_version) \o <<",">>
    \o <<"channel:">> \o JsonString(relation.channel) \o <<",">>
    \o <<"direct_url:">>
    \o (IF relation.direct_url.some
        THEN <<"[">> \o JsonStrings(relation.direct_url.v) \o <<"]">>
        ELSE <<"null">>)
    \o <<"}">>

\* "\n".join(lines)
RECURSIVE JoinLines(_)
JoinLines(lines) ==
    IF lines = <<>> THEN <<>>
    ELSE IF Len(lines) = 1 THEN Head(lines)
    ELSE Head(lines) \o <<LF>> \o JoinLines(Tail(lines))

\* gzip.GzipFile(fileobj=buffer, mode='wb') without mtime: the header holds
\* the time of the call in seconds, the member holds the deflated content
GzipFile(content, now) == [magic |-> "gzip", mtime |-> now, deflated |-> content]
decompress(data) == data.deflated

\* RelationsTable.to_jsonl at time now
to_jsonl(relations, compress, now) ==
    LET lines == [i \in 1..Len(relations) |-> model_dump_json(relations[i])]
        jsonl_content == JoinLines(lines)
    IN IF compress THEN GzipFile(jsonl_content, now) ELSE jsonl_content

\* str.splitlines(): the text is cut at every line boundary, and U+2028 is
\* one as U+000A is; no empty line after a final boundary
RECURSIVE FirstBoundary(_, _)
FirstBoundary(text, pos) ==
    IF pos > Len(text) THEN 0
    ELSE IF text[pos] \in {LF, LS} THEN pos
    ELSE FirstBoundary(text, pos + 1)
RECURSIVE splitlines(_)
splitlines(text) ==
    IF text = <<>> THEN <<>>
    ELSE LET k == FirstBoundary(text, 1)
         IN IF k = 0 THEN <<text>>
            ELSE <<SubSeq(text, 1, k - 1)>> \o splitlines(SubSeq(text, k + 1, Len(text)))

\* JSON parsing of one line
JFail == [ok |-> FALSE, v |-> <<>>, next |-> 0]
At(line, pos) == IF pos \in 1..Len(line) THEN line[pos] ELSE "EOF"

\* The characters of a JSON string from pos, up to its closing quote
RECURSIVE ReadChars(_, _)
ReadChars(line, pos) ==
    LET c == At(line, pos)
    IN IF c = QUOTE THEN [ok |-> TRUE, v |-> <<>>, next |-> pos + 1]
       ELSE IF c \in {"EOF", LF} THEN JFail
       ELSE IF c = BS
       THEN LET e == At(line, pos + 1)
                rest == ReadChars(line, pos + 2)
            IN IF e \in {"n", QUOTE, BS} /\ rest.ok
               THEN [ok |-> TRUE,
                     v |-> <<(IF e = "n" THEN LF ELSE e)>> \o rest.v,
                     next |-> rest.next]
               ELSE JFail
       ELSE LET rest == ReadChars(line, pos + 1)
            IN IF rest.ok
               THEN [ok |-> TRUE, v |-> <<c>> \o rest.v, next |-> rest.next]
               ELSE JFail
ReadString(line, pos) ==
    IF At(line, pos) = QUOTE THEN ReadChars(line, pos + 1) ELSE JFail

\* The members key: "string", for the keys given, in order
RECURSIVE ReadStringFields(_, _, _)
ReadStringFields(line, pos, keys) ==
    IF keys = <<>> THEN [ok |-> TRUE, v |-> <<>>, next |-> pos]
    ELSE IF At(line, pos) # Head(keys) THEN JFail
    ELSE LET str == ReadString(line, pos + 1)
             rest == ReadStringFields(line, str.next + 1, Tail(keys))
         IN IF str.ok /\ At(line, str.next) = "," /\ rest.ok
            THEN [ok |-> TRUE, v |-> <<str.v>> \o rest.v, next |-> rest.next]
            ELSE JFail

\* The elements of an array of strings from pos, up to its closing bracket
RECURSIVE ReadUrls(_, _)
ReadUrls(line, pos) ==
    LET str == ReadString(line, pos)
        rest == ReadUrls(line, str.next + 1)
    IN IF ~str.ok THEN JFail
       ELSE IF At(line, str.next) = "]"
       THEN [ok |-> TRUE, v |-> <<str.v>>, next |-> str.next + 1]
       ELSE IF At(line, str.next) = "," /\ rest.ok
       THEN [ok |-> TRUE, v |-> <<str.v>> \o rest.v, next |-> rest.next]
       ELSE JFail
ReadDirectUrl(line, pos) ==
    IF At(line, pos) # "direct_url:" THEN JFail
    ELSE IF At(line, pos + 1) = "null"
    THEN [ok |-> TRUE, v |-> NoneOf, next |-> pos + 2]
    ELSE IF At(line, pos + 1) # "[" THEN JFail
    ELSE IF At(line, pos + 2) = "]"
    THEN [ok |-> TRUE, v |-> Some(<<>>), next |-> pos + 3]
    ELSE LET urls == ReadUrls(line, pos + 2)
         IN IF urls.ok
            THEN [ok |-> TRUE, v |-> Some(urls.v), next |-> urls.next]
            ELSE JFail

\* PackageRelation.validate_hash
validate_hash(v) == \A i \in 1..Len(v) : v[i] \in HexChars

\* PackageRelation.model_validate_json(line): the relation, or a
\* ValidationError
model_validate_json(line) ==
    LET f == IF At(line, 1) = "{" THEN ReadStringFields(line, 2, StringKeys)
             ELSE JFail
        d == IF f.ok THEN ReadDirectUrl(line, f.next) ELSE JFail
    IN IF f.ok /\ d.ok /\ d.next = Len(line) /\ At(line, d.next) = "}"
          /\ validate_hash(f.v[3])
       THEN [ok |-> TRUE,
             v |-> PackageRelation(f.v[1], f.v[2], f.v[3], f.v[4], f.v[5],
                                   f.v[6], d.v)]
       ELSE [ok |-> FALSE, v |-> "ValidationError"]

\* The loop of from_jsonl over the lines: blank lines are skipped, a line
\* that does not validate raises
RECURSIVE ValidateLines(_)
ValidateLines(lines) ==
    IF lines = <<>> THEN [ok |-> TRUE, relations |-> <<>>]
    ELSE IF Head(lines) = <<>> THEN ValidateLines(Tail(lines))
    ELSE LET relation == model_validate_json(Head(lines))
             rest == ValidateLines(Tail(lines))
         IN IF relation.ok /\ rest.ok
            THEN [ok |-> TRUE, relations |-> <<relation.v>> \o rest.relations]
            ELSE [ok |-> FALSE, relations |-> <<>>]

\* RelationsTable.from_jsonl
from_jsonl(data, compressed) ==
    LET text == IF compressed THEN decompress(data) ELSE data
    IN ValidateLines(splitlines(text))

\* The entries of the canonical index the table is built from, their strings
\* as texts: a name without a version, an entry without names, names and
\* URLs with a quote, a backslash, a line feed and U+2028, an empty name list
T1 == <<<<"a", "1">>, MappingEntry(Some(<<<<"a">>, <<"b">>>>), Some((<<"a">> :> <<"1">>)), <<"n">>, F_n, NoneOf)>>
T2 == <<<<"b", "2">>, MappingEntry(NoneOf, NoneOf, <<"m">>, F_m, NoneOf)>>
T3 == <<<<"c", "3">>, MappingEntry(Some(<<<<"a", LS>>>>), Some((<<"a", LS>> :> <<"2">>)), <<"n">>, F_n2, Some(<<<<"u", QUOTE, LF, BS>>>>))>>
T4 == <<<<"a", "2">>, MappingEntry(Some(<<<<"a">>, <<"b">>>>), Some((<<"a">> :> <<"1">>) @@ (<<"b">> :> <<"2">>)), <<"m">>, F_m, Some(<<<<"u">>, <<"v", QUOTE>>>>))>>
T5 == <<<<"b", "3">>, MappingEntry(Some(<<>>), NoneOf, <<"n">>, F_n, NoneOf)>>
TablePool == {T1, T2, T3, T4, T5}
TableIndexes ==
    {<<>>} \cup {<<x>> : x \in TablePool} \cup {<<T1, T2>>, <<T4, T3>>, <<T5, T4>>}

\* str(channel), one character of the text
ChannelText == <<CONDA_FORGE>>

NotLoaded == [done |-> FALSE]

\* relations_updater.main, steps 2 and 3, on the index loaded at time now:
\* the table is built and serialized as the payload of relations.jsonl.gz
BuildRelationsTable(items, now) ==
    /\ Len(rel.runs) < MaxBuilds
    /\ \A i \in 1..Len(rel.runs) : rel.runs[i].at <= now
    /\ LET table == from_conda_to_pypi_index(items, ChannelText)
       IN rel' = [rel EXCEPT !.runs = Append(@,
                    [items |-> items, at |-> now, table |-> table,
                     payload |-> to_jsonl(table, TRUE, now),
                     load |-> NotLoaded])]
    /\ UNCHANGED <<pipeVars, lookVars, artVars, shardVars, cacheVars, sessVars>>

\* The table of the last run is serialized, read back with from_jsonl and
\* serialized again
LoadRelationsTable(compressed) ==
    /\ rel.runs # <<>>
    /\ ~rel.runs[Len(rel.runs)].load.done
    /\ LET run == rel.runs[Len(rel.runs)]
           data == to_jsonl(run.table, compressed, run.at)
           result == from_jsonl(data, compressed)
       IN rel' = [rel EXCEPT !.runs[Len(rel.runs)].load =
                    [done |-> TRUE, compressed |-> compressed, result |-> result,
                     again |-> IF result.ok
                               THEN to_jsonl(result.relations, FALSE, run.at)
                               ELSE <<>>]]
    /\ UNCHANGED <<pipeVars, lookVars, artVars, shardVars, cacheVars, sessVars>>

InitRelations ==
    /\ PipelineIdle /\ LookupsIdle
    /\ OthersIdle

NextRelations ==
    \/ \E items \in TableIndexes, now \in 0..MaxClock : BuildRelationsTable(items, now)
    \/ \E compressed \in BOOLEAN : LoadRelationsTable(compressed)

SpecRelations == InitRelations /\ [][NextRelations]_vars

\* C21: two runs of the relations builder on equal indexes produce the same
\* bytes of relations.jsonl.gz.
C21_SamePayload ==
    \A i \in 1..Len(rel.runs) : \A j \in 1..Len(rel.runs) :
       rel.runs[i].items = rel.runs[j].items
          => rel.runs[i].payload = rel.runs[j].payload

\* C22: decoding the JSON Lines serialization of a table, gzipped or not,
\* yields its rows in order, and encoding them again yields the same text.
C22_RoundTrip ==
    \A i \in 1..Len(rel.runs) :
       LET run == rel.runs[i]
       IN run.load.done =>
            /\ run.load.result.ok
            /\ run.load.result.relations = run.table
            /\ run.load.again = to_jsonl(run.table, FALSE, run.at)

\* The (entry, name) pairs of an index that have a version
C27_Pairs(items) ==
    {<<k, n>> \in (1..Len(items)) \X (1..2) :
        /\ items[k][2].pypi_normalized_names.some
        /\ n <= Len(items[k][2].pypi_normalized_names.v)
        /\ items[k][2].versions.some
        /\ items[k][2].pypi_normalized_names.v[n] \in DOMAIN items[k][2].versions.v}

\* The row of the table for a pair
C27_Row(items, pair) ==
    LET conda_hash == items[pair[1]][1]
        entry == items[pair[1]][2]
        pypi_name == entry.pypi_normalized_names.v[pair[2]]
    IN PackageRelation(entry.conda_name, entry.package_name, conda_hash,
                       pypi_name, entry.versions.v[pypi_name], ChannelText,
                       entry.direct_url)

\* C27: the table holds exactly one row for each pair of an entry with PyPI
\* names and a name of it that has a version, with that version, the key of
\* the entry as conda_hash and its direct_url, and no other row.
C27_RowsOfTable ==
    \A i \in 1..Len(rel.runs) :
       LET run == rel.runs[i]
           pairs == C27_Pairs(run.items)
       IN /\ \A pair \in pairs :
               Cardinality({k \in 1..Len(run.table) :
                              run.table[k] = C27_Row(run.items, pair)}) = 1
          /\ \A k \in 1..Len(run.table) :
               \E pair \in pairs : run.table[k] = C27_Row(run.items, pair)
          /\ Len(run.table) = Cardinality(pairs)

\* A table built from an entry with a name that has no version beside one
\* that has, and an entry without names
C27_Witness ==
    \E i \in 1..Len(rel.runs) :
       /\ rel.runs[i].items = <<T1, T2>>
       /\ Len(rel.runs[i].table) = 1

\* C23: a producer run that ends leaves the object store as it was, and one
\* that succeeds has written to <output_dir>/<channel>/index.json the index
\* it loaded: the stored one with check_if_exists, if there is one, and the
\* empty index otherwise.
C23_Step ==
    (producer.status = "idle" /\ producer'.status # "idle") =>
       /\ storeIndex' = storeIndex
       /\ storeMappings' = storeMappings
       /\ producer'.status = "done" =>
            /\ FileExists(fs', OUTPUT_INDEX \o <<channel, IndexJson>>)
            /\ fs'[OUTPUT_INDEX \o <<channel, IndexJson>>] =
                 IF producer'.check_if_exists /\ storeIndex.some
                 THEN storeIndex.v ELSE EmptyIndex
C23_ProducerSnapshot == [][C23_Step]_vars

\* The producer has written the snapshot of a stored index that is not empty
C23_Witness ==
    /\ producer.status = "done" /\ producer.check_if_exists
    /\ storeIndex.some /\ storeIndex.v # EmptyIndex
    /\ FileExists(fs, OUTPUT_INDEX \o <<channel, IndexJson>>)
    /\ fs[OUTPUT_INDEX \o <<channel, IndexJson>>] = storeIndex.v

\* C24: what normalize returns holds no uppercase letter, no "_", no "." and
\* no two adjacent "-", and normalize maps it to itself.
C24_Normalized ==
    art.call = "normalize" =>
       /\ \A i \in 1..Len(art.ret) : art.ret[i] \notin {"A", "_", "."}
       /\ \A i \in 1..(Len(art.ret) - 1) :
             ~(art.ret[i] = "-" /\ art.ret[i + 1] = "-")
       /\ art.again = art.ret

\* An uppercase letter followed by a run of two different separators
C24_Witness ==
    /\ art.call = "normalize"
    /\ art.name = <<"A", "_", ".">>
    /\ art.ret = <<"a", "-">>

(***************************************************************************)
(* The global session of http_utils.py used by several threads             *)
(*                                                                         *)
(* A step is one read or write of the module global or one operation of    *)
(* the lock, which the interpreter makes one at a time.  A session is      *)
(* named by the number of the constructor call that made it.               *)
(***************************************************************************)

MaxCalls == 4

\* The calls made so far by all threads
CallsMade == threads["t1"].calls + threads["t2"].calls + threads["t3"].calls

\* A thread enters get_global_session
CallGet(t) ==
    /\ threads[t].pc = "idle"
    /\ CallsMade < MaxCalls
    /\ threads' = [threads EXCEPT ![t].pc = "get_check", ![t].op = "get",
                                  ![t].calls = @ + 1]
    /\ UNCHANGED <<global_session, global_session_lock, sessions>>
    /\ UNCHANGED <<pipeVars, lookVars, artVars, shardVars, cacheVars, relVars>>

\* Line 68: if _global_session is None, read without the lock
GetFirstCheck(t) ==
    /\ threads[t].pc = "get_check"
    /\ threads' = IF global_session = NoneOf
                  THEN [threads EXCEPT ![t].pc = "get_acquire", ![t].raced = TRUE]
                  ELSE [threads EXCEPT ![t].pc = "get_return"]
    /\ UNCHANGED <<global_session, global_session_lock, sessions>>
    /\ UNCHANGED <<pipeVars, lookVars, artVars, shardVars, cacheVars, relVars>>

\* Line 69: with _global_session_lock
GetAcquire(t) ==
    /\ threads[t].pc = "get_acquire"
    /\ global_session_lock = None
    /\ global_session_lock' = t
    /\ threads' = [threads EXCEPT ![t].pc = "get_second"]
    /\ UNCHANGED <<global_session, sessions>>
    /\ UNCHANGED <<pipeVars, lookVars, artVars, shardVars, cacheVars, relVars>>

\* Lines 71-72 without the second check: the session is made in any case
GetNoSecondCheck(t) ==
    /\ threads[t].pc = "get_second"
    /\ sessions' = sessions + 1
    /\ global_session' = Some(sessions + 1)
    /\ threads' = [threads EXCEPT ![t].pc = "get_release"]
    /\ UNCHANGED global_session_lock
    /\ UNCHANGED <<pipeVars, lookVars, artVars, shardVars, cacheVars, relVars>>

\* Lines 71-72: the second check under the lock, and the constructor
GetSecondCheck(t) ==
    /\ threads[t].pc = "get_second"
    /\ IF global_session = NoneOf
       THEN /\ sessions' = sessions + 1
            /\ global_session' = Some(sessions + 1)
       ELSE UNCHANGED <<global_session, sessions>>
    /\ threads' = [threads EXCEPT ![t].pc = "get_release"]
    /\ UNCHANGED global_session_lock
    /\ UNCHANGED <<pipeVars, lookVars, artVars, shardVars, cacheVars, relVars>>

\* The end of the with block of line 69
GetRelease(t) ==
    /\ threads[t].pc = "get_release"
    /\ global_session_lock' = None
    /\ threads' = [threads EXCEPT ![t].pc = "get_return"]
    /\ UNCHANGED <<global_session, sessions>>
    /\ UNCHANGED <<pipeVars, lookVars, artVars, shardVars, cacheVars, relVars>>

\* Line 73: return _global_session, read again without the lock
GetReturn(t) ==
    /\ threads[t].pc = "get_return"
    /\ threads' = [threads EXCEPT ![t].pc = "idle",
                                  ![t].returned = Append(@, global_session)]
    /\ UNCHANGED <<global_session, global_session_lock, sessions>>
    /\ UNCHANGED <<pipeVars, lookVars, artVars, shardVars, cacheVars, relVars>>

\* A thread enters close_global_session
CallClose(t) ==
    /\ threads[t].pc = "idle"
    /\ CallsMade < MaxCalls
    /\ threads' = [threads EXCEPT ![t].pc = "close_acquire", ![t].op = "close",
                                  ![t].calls = @ + 1, ![t].closes = @ + 1]
    /\ UNCHANGED <<global_session, global_session_lock, sessions>>
    /\ UNCHANGED <<pipeVars, lookVars, artVars, shardVars, cacheVars, relVars>>

\* Line 84: with _global_session_lock
CloseAcquire(t) ==
    /\ threads[t].pc = "close_acquire"
    /\ global_session_lock = None
    /\ global_session_lock' = t
    /\ threads' = [threads EXCEPT ![t].pc = "close_reset"]
    /\ UNCHANGED <<global_session, sessions>>
    /\ UNCHANGED <<pipeVars, lookVars, artVars, shardVars, cacheVars, relVars>>

\* Lines 85-87: the session closed and the global reset
CloseReset(t) ==
    /\ threads[t].pc = "close_reset"
    /\ global_session' = NoneOf
    /\ threads' = [threads EXCEPT ![t].pc = "close_release"]
    /\ UNCHANGED <<global_session_lock, sessions>>
    /\ UNCHANGED <<pipeVars, lookVars, artVars, shardVars, cacheVars, relVars>>

\* The end of the with block of line 84
CloseRelease(t) ==
    /\ threads[t].pc = "close_release"
    /\ global_session_lock' = None
    /\ threads' = [threads EXCEPT ![t].pc = "idle"]
    /\ UNCHANGED <<global_session, sessions>>
    /\ UNCHANGED <<pipeVars, lookVars, artVars, shardVars, cacheVars, relVars>>

InitSession ==
    /\ PipelineIdle /\ LookupsIdle
    /\ OthersIdle

NextSession ==
    \/ \E t \in Threads : CallGet(t)
    \/ \E t \in Threads : GetFirstCheck(t)
    \/ \E t \in Threads : GetAcquire(t)
    \/ \E t \in Threads : GetSecondCheck(t)
    \/ \E t \in Threads : GetRelease(t)
    \/ \E t \in Threads : GetReturn(t)
    \/ \E t \in Threads : CallClose(t)
    \/ \E t \in Threads : CloseAcquire(t)
    \/ \E t \in Threads : CloseReset(t)
    \/ \E t \in Threads : CloseRelease(t)

SpecSession == InitSession /\ [][NextSession]_vars

\* C25: as long as no thread has called close_global_session, the session
\* constructor has run at most once and every call of get_global_session
\* that returned has returned the one session it made.
C25_OneSession ==
    (\A t \in Threads : threads[t].closes = 0) =>
       /\ sessions <= 1
       /\ \A t \in Threads : \A i \in 1..Len(threads[t].returned) :
             threads[t].returned[i] = Some(1)

\* Three threads found no session at the first check and have all returned
C25_Witness ==
    /\ \A t \in Threads :
          /\ threads[t].closes = 0
          /\ threads[t].raced
          /\ threads[t].returned # <<>>
    /\ sessions = 1

\* C29: every call of get_global_session that returned has returned a
\* session, whatever calls of close_global_session other threads make.
C29_NeverNone ==
    \A t \in Threads : \A i \in 1..Len(threads[t].returned) :
       threads[t].returned[i].some

\* The backend the worker is to choose for an artifact of a channel
C26_Backend(chan, file) ==
    IF chan = CONDA_FORGE /\ EndsWith(file, S_tarbz2) THEN OCI
    ELSE IF ~support_channeldata(chan) THEN DOWNLOAD
    ELSE STREAMED

\* C26: a worker that ran to its end has enqueued, for every new record of
\* its shard that is a .conda or a .tar.bz2, exactly one extraction, with
\* OCI for a .tar.bz2 of conda-forge, the full download on a labelled
\* channel and the range-streamed backend otherwise.
C26_OneBackendPerRecord ==
    \A shard \in AllShards :
       workers[shard].status = "done" =>
          \A r \in C14_New(shard) :
             (EndsWith(r[2], S_conda) \/ EndsWith(r[2], S_tarbz2)) =>
                {job \in DOMAIN workers[shard].outcomes : job[1] = r[2]}
                   = {<<r[2], C26_Backend(channel, r[2])>>}

\* The sha256 values of the records of a shard
C28_ShardHashes(shard) ==
    {ShaOf(shard[1], r) : r \in {x \in RecordsOf(shard[1]) :
                                   StartsWith(x[2], shard[2])
                                   /\ ~Falsy(ShaOf(shard[1], x))}}

MaxOtherFetches == 1

\* The 200 responses the other process receives
OtherResponses ==
    {Response(200, I_one, "e1", "t1"), Response(200, I_two, "e2", None)}

\* A call of fetch_channel_index_cached by another process that is answered
\* 200 and runs lines 212-238 to their end, at a moment at which this
\* process holds no file of the directory open
OtherProcessFetch(resp) ==
    /\ fetch.others < MaxOtherFetches
    /\ fetch.pc \notin {"dump_index", "dump_meta"}
    /\ cacheIndex' = File(resp.data)
    /\ cacheMeta' = File(MetaDict(resp.etag, resp.last_modified))
    /\ fetch' = [fetch EXCEPT !.others = @ + 1, !.sent = @ \cup Sent(resp)]
    /\ UNCHANGED <<pipeVars, lookVars, artVars, shardVars, relVars, sessVars>>

NextCacheShared ==
    \/ NextCache
    \/ \E resp \in OtherResponses : OtherProcessFetch(resp)

SpecCacheShared == InitCache /\ [][NextCacheShared]_vars

\* C30: when no call is running and none was killed, a sidecar that holds an
\* ETag or a Last-Modified value stands beside a cache file that holds the
\* body the server sent with these validators.
C30_SidecarMatchesCacheFile ==
    ( /\ fetch.pc \in {"idle", "done"}
      /\ fetch.kills = 0
      /\ Readable(cacheMeta)
      /\ DOMAIN cacheMeta.content # {} )
    => /\ Readable(cacheIndex)
       /\ <<cacheMeta.content, cacheIndex.content>> \in fetch.sent
====
